---- MODULE Spec2Model ----
(***************************************************************************)
(* Model of the Traverse VS Code extension (src/src/extension.ts): the     *)
(* module-level `client` reference, the LanguageClient objects created by  *)
(* startLanguageServer, and the asynchronous handlers (activation-time     *)
(* initializeServer, the generate commands, restart-server,                *)
(* download-server, deactivate).  Every `await` of a handler is a point    *)
(* where other handlers may run; the code between two awaits is one step.  *)
(***************************************************************************)
EXTENDS Integers, FiniteSets, Sequences, TLC

\* ------------------------------------------------------------------ bounds
MaxTasks == 2       \* handler invocations in one run (activation included)

\* An invocation creates at most two LanguageClient objects (ensureLSPClient:
\* the binary found, then the binary downloaded), the activation at most one.
MaxClients == 2 * MaxTasks - 1

Tasks == 1..MaxTasks
Clients == 1..MaxClients

VARIABLES
    client,     \* extension.ts:15  0 = undefined, else the LanguageClient held
    cstate,     \* state of every LanguageClient object ever created
    cpath,      \* serverPath each LanguageClient was created with
    cenv,       \* TRAVERSE_LSP_TRACE each LanguageClient was created with
    trace,      \* the traverse-lsp.trace.server setting
    nclients,   \* number of LanguageClient objects created so far
    task,       \* the handler invocations: position and locals of each
    installed,  \* a server binary is installed in the private storage directory
    cfgPath,    \* a configured traverse-lsp.serverPath exists on disk
    supported,  \* CONSTANTS.isCurrentPlatformSupported()
    dlBusy,     \* the invocation whose download is in flight (0 = none)
    active,     \* FALSE once deactivate has been called
    registered,     \* the command ids registerCommands has registered
    enableChunking, \* the traverse-lsp.enableChunking setting
    workspace,      \* vscode.workspace.workspaceFolders?.[0]?.uri.fsPath
    today,          \* the calendar day (UTC) of the system clock
    dirs,           \* the directories that exist under the output roots
    files,          \* the files on disk: path and content of each
    hdr,            \* the last handleDiagramResult call: arguments, effects
    gen,            \* the generate handler being followed request by request
    calls,          \* the client.sendRequest calls that handler has made
    exec,           \* executeCommand calls for commands nobody registered
    platform,       \* os.platform()
    mode,           \* the permission bits of the binaries on disk
    gsp,            \* the getServerPath call of each invocation
    wire,           \* the bytes written to the stub server, not yet read
    buffer,         \* the stub server's `buffer` of startStdio
    receivedRequests,   \* the stub server's receivedRequests
    chunkingRequests,   \* the stub server's chunkingRequests
    stdout,         \* the responses the stub server has written
    framed          \* the messages written to the stub server, in order

\* The session and provisioning state, and the state of the generate
\* commands' requests and results.
sessVars == <<client, cstate, cpath, cenv, trace, nclients, task, installed,
              cfgPath, supported, dlBusy, active>>
genVars == <<registered, enableChunking, workspace, today, dirs, files, hdr,
             gen, calls, exec>>

\* The permission bits getServerPath acts on, and the stub server with its
\* input and output streams.
pathVars == <<platform, mode, gsp>>
stubVars == <<wire, buffer, receivedRequests, chunkingRequests, stdout,
              framed>>

vars == <<client, cstate, cpath, cenv, trace, nclients, task, installed,
          cfgPath, supported, dlBusy, active, registered, enableChunking,
          workspace, today, dirs, files, hdr, gen, calls, exec,
          platform, mode, gsp, wire, buffer, receivedRequests,
          chunkingRequests, stdout, framed>>

\* ------------------------------------------------------------------ values
NoPath == [src |-> "none"]
SettingsPath == [src |-> "settings"]
InstalledPath == [src |-> "installed"]

\* "generate" is any of generate-call-graph, generate-sequence-diagram and
\* generate-storage-analysis, whose handlers differ only in the command
\* name and the title; "all" is generate-all.
GenKinds == {"generate", "all"}
CommandKinds == GenKinds \cup {"restart", "download"}

\* LanguageClient states (cstate): "none" (not created), "starting" (start()
\* pending), "running", "failed" (start() rejected), "stopping" (stop()
\* pending), "stopped", "crashed" (server process exited while running).

\* A session that has been started and not stopped.
Live(c) == cstate[c] \in {"starting", "running", "stopping"}

NewTask(k, p) ==
    [kind |-> k, pc |-> p,
     cl |-> 0,          \* the client this invocation created or sent on
     old |-> 0,         \* the client this invocation called stop() on
     step |-> 0,        \* generate-all: the analysis being requested (1..3)
     req |-> "none",    \* state of the client when sendRequest was last called
     out |-> "none",    \* outcome of the last request: pending, ok, err
     sent |-> FALSE,    \* a request was written to a server
     wrote |-> FALSE,   \* handleDiagramResult wrote a file
     found |-> FALSE,   \* getServerPath returned a path
     abort |-> "none",  \* why ensureLSPClient returned false
     stop |-> "none",   \* how the stop() this invocation awaited settled
     loc |-> NoPath,    \* the path startLanguageServer was last given
     dl |-> "none",     \* the download this invocation asked for
     dlv |-> FALSE,     \* that download installed a binary
     got |-> FALSE,     \* that download returned a path
     prompts |-> 0,     \* the download prompts this invocation showed
     warned |-> FALSE,  \* the 'not installed' warning was shown
     starts |-> 0,      \* the calls of startLanguageServer it made
     behind |-> 0]      \* the invocation whose download was in flight

\* The locals of a handler that has returned are gone; restart-server's
\* are kept, to compare the session it stopped with the one it started.
Returned(r) ==
    IF r.pc \in {"done", "threw"} /\ r.kind # "restart"
    THEN [r EXCEPT !.cl = 0, !.old = 0, !.loc = NoPath] ELSE r

Set(t, r) == [task EXCEPT ![t] = Returned(r)]

\* ------------------------------------------- JavaScript values and strings
\* A value carries its type; a string is the sequence of its parts (words,
\* separators, UTF-16 code units where they matter); an object maps the
\* names of the fields it has to their values.
Undefined == [t |-> "undefined"]
Null == [t |-> "null"]
Bool(b) == [t |-> "boolean", b |-> b]
Str(s) == [t |-> "string", s |-> s]
Num(n) == [t |-> "number", n |-> n]
Obj(f) == [t |-> "object", f |-> f]

\* o.k: undefined when o is no object or has no field k.
Get(o, k) == IF o.t = "object" /\ k \in DOMAIN o.f THEN o.f[k] ELSE Undefined

\* if (v): false, undefined, null and the empty string are falsy.
Truthy(v) ==
    CASE v.t = "boolean" -> v.b
      [] v.t = "string" -> v.s # <<>>
      [] v.t = "number" -> v.n # 0
      [] v.t = "object" -> TRUE
      [] OTHER -> FALSE

\* s.includes(needle)
Includes(s, needle) ==
    \E i \in 0..(Len(s) - Len(needle)) :
        \A j \in 1..Len(needle) : s[i + j] = needle[j]

Lower(w) ==
    CASE w = "Call" -> "call" [] w = "Graph" -> "graph"
      [] w = "Sequence" -> "sequence" [] w = "Diagram" -> "diagram"
      [] w = "Storage" -> "storage" [] w = "Analysis" -> "analysis"
      [] w = "Report" -> "report"
      [] OTHER -> w

\* s.toLowerCase()
ToLowerCase(s) == [i \in DOMAIN s |-> Lower(s[i])]

RECURSIVE SkipSpaces(_)
SkipSpaces(s) ==
    IF s # <<>> /\ Head(s) = " " THEN SkipSpaces(Tail(s)) ELSE s

\* s.replace(/\s+/g, '-'): every run of white space becomes one hyphen.
RECURSIVE ReplaceSpaces(_)
ReplaceSpaces(s) ==
    IF s = <<>> THEN <<>>
    ELSE IF Head(s) = " " THEN <<"-">> \o ReplaceSpaces(SkipSpaces(s))
    ELSE <<Head(s)>> \o ReplaceSpaces(Tail(s))

\* A string written to a file is encoded as UTF-8: a surrogate pair is one
\* character, a surrogate code unit without its partner is written as the
\* replacement character U+FFFD.
HighSurrogate == "\\uD83D"
LowSurrogate == "\\uDE00"
Replacement == "\\uFFFD"

RECURSIVE Utf8(_)
Utf8(s) ==
    IF s = <<>> THEN <<>>
    ELSE IF Len(s) >= 2 /\ s[1] = HighSurrogate /\ s[2] = LowSurrogate
    THEN <<HighSurrogate, LowSurrogate>> \o Utf8(Tail(Tail(s)))
    ELSE IF Head(s) \in {HighSurrogate, LowSurrogate}
    THEN <<Replacement>> \o Utf8(Tail(s))
    ELSE <<Head(s)>> \o Utf8(Tail(s))

\* path.join(dir, name): a path is the sequence of its segments.
PathJoin(dir, name) == Append(dir, name)

\* ------------------------------------------------------- handleDiagramResult
NoWorkspace == "none"

\* Mutant of Rejected: only a missing result is turned away.
RejectedOnlyMissing(result) == ~Truthy(result)

\* `!result || !result.success`
Rejected(result) == ~Truthy(result) \/ ~Truthy(Get(result, "success"))

\* new Date().toISOString().replace(/[:.]/g, '-').split('T')[0]: the part
\* of the ISO time before the 'T', which holds no ':' and no '.'.
Timestamp == today

BaseDir == PathJoin(<<workspace>>, "traverse-output")

\* Mutant of OutputDir: the title is matched without toLowerCase().
OutputDirCaseSensitive(title) ==
    IF Includes(title, <<"call", " ", "graph">>)
    THEN PathJoin(BaseDir, "call-graphs")
    ELSE IF Includes(title, <<"sequence">>)
    THEN PathJoin(BaseDir, "sequence-diagrams")
    ELSE IF Includes(title, <<"storage">>)
    THEN PathJoin(BaseDir, "storage-reports")
    ELSE PathJoin(BaseDir, "diagrams")

\* The output directory for a title.
OutputDir(title) ==
    IF Includes(ToLowerCase(title), <<"call", " ", "graph">>)
    THEN PathJoin(BaseDir, "call-graphs")
    ELSE IF Includes(ToLowerCase(title), <<"sequence">>)
    THEN PathJoin(BaseDir, "sequence-diagrams")
    ELSE IF Includes(ToLowerCase(title), <<"storage">>)
    THEN PathJoin(BaseDir, "storage-reports")
    ELSE PathJoin(BaseDir, "diagrams")

\* `${title.toLowerCase().replace(/\s+/g, '-')}-${timestamp}${extension}`
FileName(title, extension) ==
    [kind |-> ReplaceSpaces(ToLowerCase(title)), date |-> Timestamp,
     ext |-> extension]

\* Mutant of DetectExtension: the Mermaid markers are looked for first.
DetectExtensionMermaidFirst(diagram) ==
    IF \/ Includes(diagram, <<"sequenceDiagram">>)
       \/ Includes(diagram, <<"graph", " ", "TD">>)
       \/ Includes(diagram, <<"graph", " ", "LR">>)
       \/ Includes(diagram, <<"flowchart">>)
    THEN ".mmd"
    ELSE IF \/ Includes(diagram, <<"digraph">>)
            \/ Includes(diagram, <<"strict", " ", "graph">>)
    THEN ".dot"
    ELSE ".md"

\* The extension of a single-format diagram, detected from its content.
DetectExtension(diagram) ==
    IF \/ Includes(diagram, <<"digraph">>)
       \/ Includes(diagram, <<"strict", " ", "graph">>)
    THEN ".dot"
    ELSE IF \/ Includes(diagram, <<"sequenceDiagram">>)
            \/ Includes(diagram, <<"graph", " ", "TD">>)
            \/ Includes(diagram, <<"graph", " ", "LR">>)
            \/ Includes(diagram, <<"flowchart">>)
    THEN ".mmd"
    ELSE ".md"

\* Mutant of FileWrite: a line end is added to the text written.
FileWriteWithNewline(dir, title, extension, text) ==
    [dir |-> dir, name |-> FileName(title, extension),
     content |-> Utf8(text) \o <<"\n">>]

\* One fs.writeFileSync call.
FileWrite(dir, title, extension, text) ==
    [dir |-> dir, name |-> FileName(title, extension), content |-> Utf8(text)]

\* Mutant of Writes: the mermaid file is written before the dot file.
WritesMermaidFirst(result, title) ==
    LET data == Get(result, "data")
        dot == Get(data, "dot")
        mermaid == Get(data, "mermaid")
        diagram == Get(result, "diagram")
        outputDir == OutputDir(title)
    IN  IF Truthy(data)
        THEN (IF Truthy(mermaid)
              THEN <<FileWrite(outputDir, title, ".mmd", mermaid.s)>> ELSE <<>>)
             \o
             (IF Truthy(dot)
              THEN <<FileWrite(outputDir, title, ".dot", dot.s)>> ELSE <<>>)
        ELSE IF Truthy(diagram)
        THEN <<FileWrite(outputDir, title, DetectExtension(diagram.s),
                         diagram.s)>>
        ELSE <<>>

\* Mutant of Writes: the single-format diagram is written whether or not
\* data is present (`if` for `else if`).
WritesBothShapes(result, title) ==
    LET data == Get(result, "data")
        dot == Get(data, "dot")
        mermaid == Get(data, "mermaid")
        diagram == Get(result, "diagram")
        outputDir == OutputDir(title)
    IN  (IF Truthy(data) /\ Truthy(dot)
         THEN <<FileWrite(outputDir, title, ".dot", dot.s)>> ELSE <<>>)
        \o
        (IF Truthy(data) /\ Truthy(mermaid)
         THEN <<FileWrite(outputDir, title, ".mmd", mermaid.s)>> ELSE <<>>)
        \o
        (IF Truthy(diagram)
         THEN <<FileWrite(outputDir, title, DetectExtension(diagram.s),
                          diagram.s)>>
         ELSE <<>>)

\* The fs.writeFileSync calls handleDiagramResult makes for a successful
\* result, in the order it makes them.
Writes(result, title) ==
    LET data == Get(result, "data")
        dot == Get(data, "dot")
        mermaid == Get(data, "mermaid")
        diagram == Get(result, "diagram")
        outputDir == OutputDir(title)
    IN  IF Truthy(data)
        THEN (IF Truthy(dot)
              THEN <<FileWrite(outputDir, title, ".dot", dot.s)>> ELSE <<>>)
             \o
             (IF Truthy(mermaid)
              THEN <<FileWrite(outputDir, title, ".mmd", mermaid.s)>> ELSE <<>>)
        ELSE IF Truthy(diagram)
        THEN <<FileWrite(outputDir, title, DetectExtension(diagram.s),
                         diagram.s)>>
        ELSE <<>>

\* Mutant of Written: a file that exists is not replaced; the text goes to
\* a file with a numbered name beside it.
WrittenSuffixed(fs, ws) ==
    fs \cup {IF \E f \in fs : f.dir = ws[i].dir /\ f.name = ws[i].name
             THEN [ws[i] EXCEPT !.name.kind = Append(@, "-1")]
             ELSE ws[i] : i \in DOMAIN ws}

\* The files on disk after the writes ws: a file written again is replaced.
RECURSIVE Written(_, _)
Written(fs, ws) ==
    IF ws = <<>> THEN fs
    ELSE Written({f \in fs : ~(f.dir = Head(ws).dir /\ f.name = Head(ws).name)}
                    \cup {Head(ws)},
                 Tail(ws))

\* fs.mkdirSync(outputDir, {recursive: true}) when outputDir does not exist.
MkDir(ds, dir) == IF dir \in ds THEN ds ELSE ds \cup {BaseDir, dir}

\* handleDiagramResult(result, title): the directories and files after the
\* call, the writes it made, its savedFiles list and what it reported.
HandleDiagramResult(result, title) ==
    IF Rejected(result)
    THEN [result |-> result, title |-> title, dirs |-> dirs, files |-> files,
          wrote |-> <<>>, saved |-> <<>>, msg |-> "failed"]
    ELSE IF workspace = NoWorkspace
    THEN [result |-> result, title |-> title, dirs |-> dirs, files |-> files,
          wrote |-> <<>>, saved |-> <<>>, msg |-> "noWorkspace"]
    ELSE LET ws == Writes(result, title)
         IN  [result |-> result, title |-> title,
              dirs |-> MkDir(dirs, OutputDir(title)),
              files |-> Written(files, ws),
              wrote |-> ws,
              saved |-> [i \in DOMAIN ws |-> PathJoin(ws[i].dir, ws[i].name)],
              msg |-> IF ws # <<>> THEN "saved" ELSE "nothing"]

\* -------------------------------------------------------- registerCommands
\* The command ids pushed to context.subscriptions.
RegisteredCommands ==
    {"traverse.generateCallGraph", "traverse.generateSequenceDiagram",
     "traverse.generateStorageAnalysis", "traverse.generateAllAnalyses",
     "traverse.restart", "traverse.downloadServer"}

\* The command ids the extension's tests expect after activation.
ExpectedCommands ==
    {"traverse.generateCallGraph", "traverse.generateSequenceDiagram",
     "traverse.generateStorageAnalysis", "traverse.generateAllAnalyses",
     "traverse.toggleChunking", "traverse.restart", "traverse.downloadServer"}

\* The workspace folder of the window, a path clicked in it, the days of
\* the system clock.
ProjectDir == "/proj"
ClickedDir == "/proj/contracts"
NoUri == "none"
Days == <<"2025-01-01", "2025-01-02">>

\* No handleDiagramResult call yet; no generate handler followed yet.
NoCall ==
    [result |-> Undefined, title |-> <<>>, wrote |-> <<>>, saved |-> <<>>,
     msg |-> "none"]

NoHandler ==
    [cmd |-> "none", uri |-> NoUri, pc |-> "idle", step |-> 0, root |-> "",
     out |-> "none", ok |-> TRUE, n |-> 0]

\* ------------------------------------------------- permission bits, stub idle
\* File modes, as the integers chmod takes: 0o600, 0o644, 0o700, 0o755.
Modes == {384, 420, 448, 493}

\* fs.chmodSync(location.path, 0o755)
ExecutableMode == 493

OwnerExec(m) == (m \div 64) % 2 = 1
GroupExec(m) == (m \div 8) % 2 = 1
OtherExec(m) == m % 2 = 1

\* No getServerPath call made yet.
NoLookup == [pc |-> "none", src |-> "none", chmod |-> "none", was |-> 0]

\* A Unix host whose binaries have the modes an install leaves; no
\* getServerPath call is followed.
PathIdle ==
    /\ platform = "linux"
    /\ mode = [settings |-> ExecutableMode, installed |-> ExecutableMode]
    /\ gsp = [t \in Tasks |-> NoLookup]

\* No stub server is attached.
StubIdle ==
    /\ wire = <<>>
    /\ buffer = <<>>
    /\ receivedRequests = <<>>
    /\ chunkingRequests = [withChunking |-> <<>>, withoutChunking |-> <<>>]
    /\ stdout = <<>>
    /\ framed = <<>>

\* Mutant of AfterRegister: initializeServer is called on every platform.
AfterRegisterAnyPlatform(isSupported) == "is_locate"

\* activate, once the commands are registered: on a supported platform it
\* calls initializeServer (not awaited), on any other it shows a warning;
\* either way it returns.
AfterRegister(isSupported) == IF isSupported THEN "is_locate" ELSE "done"

\* ------------------------------------------------------------------ Init
\* activate() has run: commands are registered and, on a supported
\* platform, initializeServer has been called and awaits getServerPath.
Init ==
    /\ client = 0
    /\ cstate = [c \in Clients |-> "none"]
    /\ cpath = [c \in Clients |-> NoPath]
    /\ cenv = [c \in Clients |-> "off"]
    /\ trace = "off"
    /\ nclients = 0
    /\ supported \in BOOLEAN
    /\ cfgPath \in BOOLEAN
    /\ installed \in BOOLEAN
    /\ task = [t \in Tasks |->
                 IF t = 1
                 THEN NewTask("activate", AfterRegister(supported))
                 ELSE NewTask("none", "idle")]
    /\ dlBusy = 0
    /\ active = TRUE
    /\ registered = RegisteredCommands
    /\ enableChunking = FALSE
    /\ workspace = ProjectDir
    /\ today = Days[1]
    /\ dirs = {}
    /\ files = {}
    /\ hdr = NoCall
    /\ gen = NoHandler
    /\ calls = <<>>
    /\ exec = <<>>
    /\ PathIdle
    /\ StubIdle

\* ------------------------------------------------- binary location, download
\* BinaryFinder.find(): the configured override if it exists, else the most
\* recently installed binary, else nothing.
Locate ==
    IF cfgPath THEN SettingsPath
    ELSE IF installed THEN InstalledPath
    ELSE NoPath

\* getServerPath: the path of the location found, or nothing.
GetServerPath == Locate

\* Mutant of DownloaderFree: no guard against a download in flight.
DownloaderAlwaysFree == TRUE

\* Downloader: one download may be in flight at a time per process.
DownloaderFree == dlBusy = 0

\* downloadLatestBinary() is called by invocation t, whose record is r; the
\* caller then awaits the result at nextpc.  With a download in flight the
\* call either fails fast ("busy") or awaits the one in flight ("wait").
DownloadCall(t, r, nextpc) ==
    \/ /\ DownloaderFree
       /\ dlBusy' = t
       /\ task' = Set(t, [r EXCEPT !.dl = "xfer", !.behind = 0, !.pc = nextpc])
    \/ /\ ~DownloaderFree
       /\ \E m \in {"busy", "wait"} :
            task' = Set(t, [r EXCEPT !.dl = m, !.behind = dlBusy, !.pc = nextpc])
       /\ UNCHANGED dlBusy

\* The ways the download awaited by record r can settle: res is the path
\* returned (NoPath = undefined), inst whether a binary is installed after.
DlOutcomes(r) ==
    CASE r.dl = "xfer" ->
           {[res |-> InstalledPath, inst |-> TRUE, dl |-> "ok", dlv |-> TRUE],
            [res |-> NoPath, inst |-> installed, dl |-> "failed", dlv |-> FALSE]}
      [] r.dl = "busy" ->
           {[res |-> NoPath, inst |-> installed, dl |-> "refused", dlv |-> FALSE]}
      [] r.dl = "wait" ->
           IF task[r.behind].dl = "xfer" THEN {}
           ELSE {[res |-> IF task[r.behind].dlv THEN InstalledPath ELSE NoPath,
                  inst |-> installed, dl |-> "joined", dlv |-> FALSE]}
      [] OTHER -> {}

\* The record of an invocation whose download settled with outcome o.
Downloaded(r, o) ==
    [r EXCEPT !.dl = o.dl, !.dlv = o.dlv, !.got = o.res # NoPath]

DlRelease(r) == IF r.dl = "xfer" THEN 0 ELSE dlBusy

\* ------------------------------------------------------ startLanguageServer
\* client = new LanguageClient(...); await client.start().  cs is the client
\* state map the call starts from, r the caller's record.
StartLanguageServer(t, r, path, nextpc, cs) ==
    /\ nclients < MaxClients
    /\ nclients' = nclients + 1
    /\ client' = nclients + 1
    /\ cstate' = [cs EXCEPT ![nclients + 1] = "starting"]
    /\ cpath' = [cpath EXCEPT ![nclients + 1] = path]
    /\ cenv' = [cenv EXCEPT ![nclients + 1] = trace]
    /\ task' = Set(t, [r EXCEPT !.cl = nclients + 1, !.loc = path,
                                !.starts = r.starts + 1, !.pc = nextpc])

\* client.start() of invocation t settles: ok = resolved, else rejected.
StartSettled(t, ok) ==
    [cstate EXCEPT ![task[t].cl] = IF ok THEN "running" ELSE "failed"]

\* ------------------------------------------------------------ client.stop()
\* How client.stop() on client c will settle, by the state it is called in:
\* a running client shuts down ("pending": resolves, or rejects on a
\* shutdown timeout or failure); a stopped one resolves at once; one that
\* is not running (starting, start failed) cannot be stopped and rejects.
StopKind(c) ==
    CASE cstate[c] \in {"running", "stopping"} -> "pending"
      [] cstate[c] \in {"stopped", "crashed"} -> "resolving"
      [] OTHER -> "rejecting"

StopCalled(c) ==
    IF cstate[c] = "running" THEN [cstate EXCEPT ![c] = "stopping"] ELSE cstate

\* The client states once the stop() awaited by record r has settled.
StopSettled(r) ==
    IF r.stop = "pending" /\ cstate[r.old] \in {"running", "stopping"}
    THEN [cstate EXCEPT ![r.old] = "stopped"] ELSE cstate

\* The ways the stop() awaited by record r can settle: "resolved" and
\* "threw" after a shutdown, "noop" (resolved, nothing to stop), "refused"
\* (rejected, the client was not running).
StopResults(r) ==
    CASE r.stop = "pending" -> {"resolved", "threw"}
      [] r.stop = "resolving" -> {"noop"}
      [] r.stop = "rejecting" -> {"refused"}
      [] OTHER -> {}

StopResolved(res) == res \in {"resolved", "noop"}

\* ------------------------------------------------------------ sendRequest
AllSteps == 3       \* generate-all runs three analyses in sequence

\* `if (client) return true`: ensureLSPClient takes the session as ready.
ClientPresent == client # 0

\* Mutant of AfterEnsure: the result of ensureLSPClient is not looked at.
AfterEnsureUnchecked(kind, ok) == IF kind \in GenKinds THEN "g_send" ELSE "done"

\* Where a handler goes when ensureLSPClient returns ok.
AfterEnsure(kind, ok) == IF ok /\ kind \in GenKinds THEN "g_send" ELSE "done"

\* A request that fails without reaching a server: a generate command
\* reports the error and returns; generate-all logs it and goes on to the
\* next analysis, which fails the same way.
Failed(r) ==
    [r EXCEPT !.out = "err", !.pc = "done",
              !.step = IF r.kind = "all" THEN AllSteps ELSE r.step]

\* Mutant of Send: the session takes one request at a time; a request made
\* while another one is pending is rejected.
SendOneAtATime(r) ==
    IF client = 0 \/ cstate[client] # "running"
       \/ \E u \in Tasks : task[u].pc = "g_wait"
    THEN Failed(r)
    ELSE [r EXCEPT !.cl = client, !.req = "running", !.out = "pending",
                   !.sent = TRUE, !.pc = "g_wait"]

\* client!.sendRequest('workspace/executeCommand', ...) by record r: on a
\* running client the request is written to the server; on a starting
\* client it is held until start() settles; on any other it is rejected;
\* with client undefined the call itself throws.
Send(r) ==
    IF client = 0 THEN Failed(r)
    ELSE CASE cstate[client] = "running" ->
                [r EXCEPT !.cl = client, !.req = "running", !.out = "pending",
                          !.sent = TRUE, !.pc = "g_wait"]
           [] cstate[client] = "starting" ->
                [r EXCEPT !.cl = client, !.req = "starting", !.out = "pending",
                          !.pc = "g_hold"]
           [] OTHER ->
                Failed([r EXCEPT !.cl = client, !.req = cstate[client]])

\* After one request has settled: generate-all sends the next analysis,
\* the other commands return.
Continue(r) ==
    IF r.kind = "all" /\ r.step < AllSteps
    THEN Send([r EXCEPT !.step = r.step + 1])
    ELSE [r EXCEPT !.pc = "done"]

\* ---------------------------------------------------------------- actions
\* Invocation t has not been made yet; commands are invoked in the order of
\* their numbers, and none once the extension is deactivated.
Idle(t) ==
    /\ task[t].pc = "idle"
    /\ active
    /\ t > 1 => task[t - 1].pc # "idle"

\* ---- initializeServer (activation, and restart-server after its stop)
\* Mutant of InitLocated: with no binary found the download starts at once,
\* without the prompt.
InitLocatedNoConsent(t) ==
    /\ task[t].pc = "is_locate"
    /\ IF GetServerPath # NoPath
       THEN /\ StartLanguageServer(t, [task[t] EXCEPT !.found = TRUE],
                                   GetServerPath, "is_start", cstate)
            /\ UNCHANGED dlBusy
       ELSE /\ DownloadCall(t, task[t], "is_dl")
            /\ UNCHANGED <<client, cstate, cpath, cenv, nclients>>
    /\ UNCHANGED <<trace, installed, cfgPath, supported, active>>
    /\ UNCHANGED <<genVars, pathVars, stubVars>>

InitLocated(t) ==
    /\ task[t].pc = "is_locate"
    /\ IF GetServerPath # NoPath
       THEN StartLanguageServer(t, [task[t] EXCEPT !.found = TRUE],
                                GetServerPath, "is_start", cstate)
       ELSE /\ task' = Set(t, [task[t] EXCEPT !.prompts = @ + 1,
                                              !.pc = "is_prompt"])
            /\ UNCHANGED <<client, cstate, cpath, cenv, nclients>>
    /\ UNCHANGED <<trace, installed, cfgPath, supported, dlBusy, active>>
    /\ UNCHANGED <<genVars, pathVars, stubVars>>

InitPromptDownload(t) ==
    /\ task[t].pc = "is_prompt"
    /\ DownloadCall(t, task[t], "is_dl")
    /\ UNCHANGED <<trace, client, cstate, cpath, cenv, nclients, installed,
                   cfgPath, supported, active>>
    /\ UNCHANGED <<genVars, pathVars, stubVars>>

\* Mutant of InitPromptCancel: initializeServer returns without the
\* warning when the prompt is declined.
InitPromptCancelSilent(t) ==
    /\ task[t].pc = "is_prompt"
    /\ task' = Set(t, [task[t] EXCEPT !.pc = "done"])
    /\ UNCHANGED <<trace, client, cstate, cpath, cenv, nclients, installed,
                   cfgPath, supported, dlBusy, active>>
    /\ UNCHANGED <<genVars, pathVars, stubVars>>

InitPromptCancel(t) ==
    /\ task[t].pc = "is_prompt"
    /\ task' = Set(t, [task[t] EXCEPT !.warned = TRUE, !.pc = "done"])
    /\ UNCHANGED <<trace, client, cstate, cpath, cenv, nclients, installed,
                   cfgPath, supported, dlBusy, active>>
    /\ UNCHANGED <<genVars, pathVars, stubVars>>

InitDownloaded(t) ==
    /\ task[t].pc = "is_dl"
    /\ \E o \in DlOutcomes(task[t]) :
         /\ installed' = o.inst
         /\ dlBusy' = DlRelease(task[t])
         /\ IF o.res # NoPath
            THEN StartLanguageServer(t, Downloaded(task[t], o), o.res,
                                     "is_start", cstate)
            ELSE /\ task' = Set(t, [Downloaded(task[t], o) EXCEPT
                                      !.warned = TRUE, !.pc = "done"])
                 /\ UNCHANGED <<client, cstate, cpath, cenv, nclients>>
    /\ UNCHANGED <<trace, cfgPath, supported, active>>
    /\ UNCHANGED <<genVars, pathVars, stubVars>>

InitStarted(t) ==
    /\ task[t].pc = "is_start"
    /\ cstate[task[t].cl] = "starting"
    /\ \E ok \in BOOLEAN :
         /\ cstate' = StartSettled(t, ok)
         /\ task' = Set(t, [task[t] EXCEPT !.pc = "done"])
    /\ UNCHANGED <<trace, client, cpath, cenv, nclients, installed, cfgPath,
                   supported, dlBusy, active>>
    /\ UNCHANGED <<genVars, pathVars, stubVars>>

\* ---- ensureLSPClient (generate commands, restart-server without client)
EnsureLocated(t) ==
    /\ task[t].pc = "en_locate"
    /\ IF GetServerPath # NoPath
       THEN StartLanguageServer(t, [task[t] EXCEPT !.found = TRUE],
                                GetServerPath, "en_start1", cstate)
       ELSE /\ task' = Set(t, [task[t] EXCEPT !.prompts = @ + 1,
                                              !.pc = "en_prompt"])
            /\ UNCHANGED <<client, cstate, cpath, cenv, nclients>>
    /\ UNCHANGED <<trace, installed, cfgPath, supported, dlBusy, active>>
    /\ UNCHANGED <<genVars, pathVars, stubVars>>

EnsureStarted1(t) ==
    /\ task[t].pc = "en_start1"
    /\ cstate[task[t].cl] = "starting"
    /\ \E ok \in BOOLEAN :
         /\ cstate' = StartSettled(t, ok)
         /\ task' = Set(t, [task[t] EXCEPT
                !.prompts = IF ok THEN @ ELSE @ + 1,
                !.pc = IF ok THEN AfterEnsure(task[t].kind, TRUE) ELSE "en_prompt"])
    /\ UNCHANGED <<trace, client, cpath, cenv, nclients, installed, cfgPath,
                   supported, dlBusy, active>>
    /\ UNCHANGED <<genVars, pathVars, stubVars>>

EnsurePromptDownload(t) ==
    /\ task[t].pc = "en_prompt"
    /\ DownloadCall(t, task[t], "en_dl")
    /\ UNCHANGED <<trace, client, cstate, cpath, cenv, nclients, installed,
                   cfgPath, supported, active>>
    /\ UNCHANGED <<genVars, pathVars, stubVars>>

EnsurePromptCancel(t) ==
    /\ task[t].pc = "en_prompt"
    /\ task' = Set(t, [task[t] EXCEPT !.abort = "declined",
                                      !.pc = AfterEnsure(task[t].kind, FALSE)])
    /\ UNCHANGED <<trace, client, cstate, cpath, cenv, nclients, installed,
                   cfgPath, supported, dlBusy, active>>
    /\ UNCHANGED <<genVars, pathVars, stubVars>>

EnsureDownloaded(t) ==
    /\ task[t].pc = "en_dl"
    /\ \E o \in DlOutcomes(task[t]) :
         /\ installed' = o.inst
         /\ dlBusy' = DlRelease(task[t])
         /\ IF o.res # NoPath
            THEN StartLanguageServer(t, Downloaded(task[t], o), o.res,
                                     "en_start2", cstate)
            ELSE /\ task' = Set(t, [Downloaded(task[t], o) EXCEPT
                                      !.abort = "noPath",
                                      !.pc = AfterEnsure(task[t].kind, FALSE)])
                 /\ UNCHANGED <<client, cstate, cpath, cenv, nclients>>
    /\ UNCHANGED <<trace, cfgPath, supported, active>>
    /\ UNCHANGED <<genVars, pathVars, stubVars>>

EnsureStarted2(t) ==
    /\ task[t].pc = "en_start2"
    /\ cstate[task[t].cl] = "starting"
    /\ \E ok \in BOOLEAN :
         /\ cstate' = StartSettled(t, ok)
         /\ task' = Set(t, [task[t] EXCEPT
                !.abort = IF ok THEN "none" ELSE "startFailed",
                !.pc = AfterEnsure(task[t].kind, ok)])
    /\ UNCHANGED <<trace, client, cpath, cenv, nclients, installed, cfgPath,
                   supported, dlBusy, active>>
    /\ UNCHANGED <<genVars, pathVars, stubVars>>

\* ---- generate commands.  Spec launches the single-analysis commands;
\* generate-all passes ensureLSPClient the same way and then requests its
\* three analyses one after the other (Send, Continue with kind "all").
LaunchGenerate(t) ==
    /\ Idle(t)
    /\ task' = Set(t, NewTask("generate", IF ClientPresent
                   THEN AfterEnsure("generate", TRUE) ELSE "en_locate"))
    /\ UNCHANGED <<trace, client, cstate, cpath, cenv, nclients, installed,
                   cfgPath, supported, dlBusy, active>>
    /\ UNCHANGED <<genVars, pathVars, stubVars>>

SendRequest(t) ==
    /\ task[t].pc = "g_send"
    /\ task' = Set(t, Send([task[t] EXCEPT
                              !.step = IF task[t].kind = "all" THEN 1 ELSE 0]))
    /\ UNCHANGED <<trace, client, cstate, cpath, cenv, nclients, installed,
                   cfgPath, supported, dlBusy, active>>
    /\ UNCHANGED <<genVars, pathVars, stubVars>>

\* A request held by a starting client: written once start() has resolved,
\* rejected if the client did not come to run.
RequestReleased(t) ==
    /\ task[t].pc = "g_hold"
    /\ cstate[task[t].cl] # "starting"
    /\ task' = Set(t, IF cstate[task[t].cl] = "running"
                      THEN [task[t] EXCEPT !.sent = TRUE, !.pc = "g_wait"]
                      ELSE Continue([task[t] EXCEPT !.out = "err"]))
    /\ UNCHANGED <<trace, client, cstate, cpath, cenv, nclients, installed,
                   cfgPath, supported, dlBusy, active>>
    /\ UNCHANGED <<genVars, pathVars, stubVars>>

\* The response arrives and handleDiagramResult runs: "saved" = a
\* successful result with a payload, "empty" = nothing to save.
ResponseReceived(t) ==
    /\ task[t].pc = "g_wait"
    /\ cstate[task[t].cl] = "running"
    /\ \E res \in {"saved", "empty"} :
         task' = Set(t, Continue([task[t] EXCEPT
                    !.out = "ok", !.wrote = task[t].wrote \/ res = "saved"]))
    /\ UNCHANGED <<trace, client, cstate, cpath, cenv, nclients, installed,
                   cfgPath, supported, dlBusy, active>>
    /\ UNCHANGED <<genVars, pathVars, stubVars>>

\* The request is rejected: an error response, or the connection closed.
RequestRejected(t) ==
    /\ task[t].pc = "g_wait"
    /\ task' = Set(t, Continue([task[t] EXCEPT !.out = "err"]))
    /\ UNCHANGED <<trace, client, cstate, cpath, cenv, nclients, installed,
                   cfgPath, supported, dlBusy, active>>
    /\ UNCHANGED <<genVars, pathVars, stubVars>>

\* ---- restart-server
\* Mutant of RestartAfterStop: a rejected stop() does not end the restart.
RestartAfterStopUncaught(resolved) == "is_locate"

\* Where restart-server goes once its stop() has settled.
RestartAfterStop(resolved) == IF resolved THEN "is_locate" ELSE "done"

LaunchRestart(t) ==
    /\ Idle(t)
    /\ IF ~ClientPresent
       THEN /\ task' = Set(t, NewTask("restart", "en_locate"))
            /\ UNCHANGED cstate
       ELSE /\ task' = Set(t, [NewTask("restart", "rs_stop") EXCEPT
                                 !.old = client, !.stop = StopKind(client)])
            /\ cstate' = StopCalled(client)
    /\ UNCHANGED <<trace, client, cpath, cenv, nclients, installed, cfgPath,
                   supported, dlBusy, active>>
    /\ UNCHANGED <<genVars, pathVars, stubVars>>

RestartStopped(t) ==
    /\ task[t].pc = "rs_stop"
    /\ \E res \in StopResults(task[t]) :
         /\ cstate' = StopSettled(task[t])
         /\ client' = IF StopResolved(res) THEN 0 ELSE client
         /\ task' = Set(t, [task[t] EXCEPT
                              !.stop = res,
                              !.pc = RestartAfterStop(StopResolved(res))])
    /\ UNCHANGED <<trace, cpath, cenv, nclients, installed, cfgPath,
                   supported, dlBusy, active>>
    /\ UNCHANGED <<genVars, pathVars, stubVars>>

\* ---- download-server
LaunchDownload(t) ==
    /\ Idle(t)
    /\ DownloadCall(t, NewTask("download", "dc_dl"), "dc_dl")
    /\ UNCHANGED <<trace, client, cstate, cpath, cenv, nclients, installed,
                   cfgPath, supported, active>>
    /\ UNCHANGED <<genVars, pathVars, stubVars>>

CmdDownloaded(t) ==
    /\ task[t].pc = "dc_dl"
    /\ \E o \in DlOutcomes(task[t]) :
         /\ installed' = o.inst
         /\ dlBusy' = DlRelease(task[t])
         /\ task' = Set(t, [Downloaded(task[t], o) EXCEPT
                              !.loc = o.res,
                              !.pc = IF o.res # NoPath THEN "dc_prompt" ELSE "done"])
    /\ UNCHANGED <<trace, client, cstate, cpath, cenv, nclients, cfgPath,
                   supported, active>>
    /\ UNCHANGED <<genVars, pathVars, stubVars>>

CmdPromptLater(t) ==
    /\ task[t].pc = "dc_prompt"
    /\ task' = Set(t, [task[t] EXCEPT !.pc = "done"])
    /\ UNCHANGED <<trace, client, cstate, cpath, cenv, nclients, installed,
                   cfgPath, supported, dlBusy, active>>
    /\ UNCHANGED <<genVars, pathVars, stubVars>>

CmdPromptStart(t) ==
    /\ task[t].pc = "dc_prompt"
    /\ IF ClientPresent
       THEN /\ task' = Set(t, [task[t] EXCEPT !.old = client,
                                 !.stop = StopKind(client), !.pc = "dc_stop"])
            /\ cstate' = StopCalled(client)
            /\ UNCHANGED <<client, cpath, cenv, nclients>>
       ELSE StartLanguageServer(t, task[t], task[t].loc, "dc_start", cstate)
    /\ UNCHANGED <<trace, installed, cfgPath, supported, dlBusy, active>>
    /\ UNCHANGED <<genVars, pathVars, stubVars>>

CmdStopped(t) ==
    /\ task[t].pc = "dc_stop"
    /\ \E res \in StopResults(task[t]) :
         IF StopResolved(res)
         THEN StartLanguageServer(t, [task[t] EXCEPT !.stop = res],
                                  task[t].loc, "dc_start", StopSettled(task[t]))
         ELSE /\ cstate' = StopSettled(task[t])
              /\ task' = Set(t, [task[t] EXCEPT !.stop = res, !.pc = "threw"])
              /\ UNCHANGED <<client, cpath, cenv, nclients>>
    /\ UNCHANGED <<trace, installed, cfgPath, supported, dlBusy, active>>
    /\ UNCHANGED <<genVars, pathVars, stubVars>>

CmdStarted(t) ==
    /\ task[t].pc = "dc_start"
    /\ cstate[task[t].cl] = "starting"
    /\ \E ok \in BOOLEAN :
         /\ cstate' = StartSettled(t, ok)
         /\ task' = Set(t, [task[t] EXCEPT !.pc = IF ok THEN "done" ELSE "threw"])
    /\ UNCHANGED <<trace, client, cpath, cenv, nclients, installed, cfgPath,
                   supported, dlBusy, active>>
    /\ UNCHANGED <<genVars, pathVars, stubVars>>

\* ---- deactivate
Deactivate(t) ==
    /\ Idle(t)
    /\ active' = FALSE
    /\ IF ~ClientPresent
       THEN /\ task' = Set(t, NewTask("deactivate", "done"))
            /\ UNCHANGED cstate
       ELSE /\ task' = Set(t, [NewTask("deactivate", "de_stop") EXCEPT
                                 !.old = client, !.stop = StopKind(client)])
            /\ cstate' = StopCalled(client)
    /\ UNCHANGED <<trace, client, cpath, cenv, nclients, installed, cfgPath,
                   supported, dlBusy>>
    /\ UNCHANGED <<genVars, pathVars, stubVars>>

DeactivateStopped(t) ==
    /\ task[t].pc = "de_stop"
    /\ \E res \in StopResults(task[t]) :
         /\ cstate' = StopSettled(task[t])
         /\ task' = Set(t, [task[t] EXCEPT
                              !.stop = res,
                              !.pc = IF StopResolved(res) THEN "done" ELSE "threw"])
    /\ UNCHANGED <<trace, client, cpath, cenv, nclients, installed, cfgPath,
                   supported, dlBusy, active>>
    /\ UNCHANGED <<genVars, pathVars, stubVars>>

\* ---- the server process of the session held exits while it is running
Crash(c) ==
    /\ c = client
    /\ cstate[c] = "running"
    /\ cstate' = [cstate EXCEPT ![c] = "crashed"]
    /\ UNCHANGED <<trace, client, cpath, cenv, nclients, task, installed,
                   cfgPath, supported, dlBusy, active>>
    /\ UNCHANGED <<genVars, pathVars, stubVars>>

\* ---- the user changes the traverse-lsp.trace.server setting (default off)
ConfigChanged ==
    /\ trace = "off"
    /\ trace' = "verbose"
    /\ UNCHANGED <<client, cstate, cpath, cenv, nclients, task, installed,
                   cfgPath, supported, dlBusy, active>>
    /\ UNCHANGED <<genVars, pathVars, stubVars>>

Next ==
    \/ \E t \in Tasks :
         \/ InitLocated(t) \/ InitPromptDownload(t) \/ InitPromptCancel(t)
         \/ InitDownloaded(t) \/ InitStarted(t)
         \/ EnsureLocated(t) \/ EnsureStarted1(t) \/ EnsurePromptDownload(t)
         \/ EnsurePromptCancel(t) \/ EnsureDownloaded(t) \/ EnsureStarted2(t)
         \/ LaunchGenerate(t) \/ SendRequest(t) \/ RequestReleased(t)
         \/ ResponseReceived(t) \/ RequestRejected(t)
         \/ LaunchRestart(t) \/ RestartStopped(t)
         \/ LaunchDownload(t) \/ CmdDownloaded(t) \/ CmdPromptLater(t)
         \/ CmdPromptStart(t) \/ CmdStopped(t) \/ CmdStarted(t)
         \/ Deactivate(t) \/ DeactivateStopped(t)
    \/ \E c \in Clients : Crash(c)
    \/ ConfigChanged

Spec == Init /\ [][Next]_vars

\* ======================================================= generate handlers
\* The generate commands followed request by request, from the point where
\* ensureLSPClient has returned true (the session Spec leaves running).
MaxRuns == 2        \* executeCommand calls followed in one run

CallGraphTitle == <<"Call", " ", "Graph">>
SequenceTitle == <<"Sequence", " ", "Diagram">>
StorageTitle == <<"Storage", " ", "Analysis">>

CallGraphAnalysis ==
    [command |-> "traverse.generateCallGraph.workspace", title |-> CallGraphTitle]
SequenceAnalysis ==
    [command |-> "traverse.generateSequenceDiagram.workspace",
     title |-> SequenceTitle]
StorageAnalysis ==
    [command |-> "traverse.analyzeStorage.workspace", title |-> StorageTitle]

GenCommands ==
    {"traverse.generateCallGraph", "traverse.generateSequenceDiagram",
     "traverse.generateStorageAnalysis", "traverse.generateAllAnalyses"}

\* The analyses a command requests, in the order of its sendRequest calls,
\* each with the title its result is handled under.
Analyses(cmd) ==
    CASE cmd = "traverse.generateCallGraph" -> <<CallGraphAnalysis>>
      [] cmd = "traverse.generateSequenceDiagram" -> <<SequenceAnalysis>>
      [] cmd = "traverse.generateStorageAnalysis" -> <<StorageAnalysis>>
      [] cmd = "traverse.generateAllAnalyses" ->
             <<CallGraphAnalysis, SequenceAnalysis, StorageAnalysis>>

\* uri?.fsPath || vscode.workspace.workspaceFolders?.[0]?.uri.fsPath
ClickedPath(uri) ==
    IF uri # NoUri THEN uri
    ELSE IF workspace # NoWorkspace THEN workspace ELSE NoUri

\* Mutant of FindProjectRoot: the start path is used when there is one.
FindProjectRootFromStart(startPath) ==
    IF startPath # NoUri THEN startPath
    ELSE IF workspace = NoWorkspace THEN "" ELSE workspace

\* findProjectRoot(startPath): the workspace root, else startPath || ''.
FindProjectRoot(startPath) ==
    IF workspace = NoWorkspace
    THEN (IF startPath = NoUri THEN "" ELSE startPath)
    ELSE workspace

\* The params of a workspace/executeCommand request.
RequestPayload(command, projectRoot) ==
    [command |-> command, arguments |-> <<[workspace_folder |-> projectRoot]>>]

\* Mutant of NextRequest: a request that failed ends generate-all.
NextRequestStopOnError(g) ==
    IF Len(Analyses(g.cmd)) > g.step /\ g.out # "err"
    THEN [g EXCEPT !.step = g.step + 1, !.pc = "send"]
    ELSE [g EXCEPT !.pc = IF Len(Analyses(g.cmd)) > 1 THEN "notify" ELSE "done"]

\* Where a handler goes once a request has settled (g.out): generate-all
\* goes on to its next analysis whatever the outcome and asks, after the
\* last, whether to open the output folder; the other commands return.
NextRequest(g) ==
    IF Len(Analyses(g.cmd)) > g.step
    THEN [g EXCEPT !.step = g.step + 1, !.pc = "send"]
    ELSE [g EXCEPT !.pc = IF Len(Analyses(g.cmd)) > 1 THEN "notify" ELSE "done"]

\* ---- the stub server of the chunking test
\* The payloads of the stub's answers.
StubDot == <<"digraph", " G { A -> B; }">>
StubMermaid == <<"sequenceDiagram", "\n    A->>B: Test">>
StubReport == <<"# Storage Analysis", "\n\nTest storage analysis">>

\* MockLSPServer.handleRequest for a workspace/executeCommand request;
\* chunked is `args?.chunking || false`.
MockHandleRequest(params) ==
    LET chunked == IF /\ "chunking" \in DOMAIN params.arguments[1]
                      /\ Truthy(params.arguments[1].chunking)
                   THEN params.arguments[1].chunking ELSE Bool(FALSE)
    IN  CASE params.command = "traverse.generateCallGraph.workspace" ->
               Obj([k \in {"success", "data"} |->
                      IF k = "success" THEN Bool(TRUE)
                      ELSE Obj([f \in {"dot", "chunked"} |->
                                  IF f = "dot" THEN Str(StubDot)
                                  ELSE chunked])])
          [] params.command = "traverse.generateSequenceDiagram.workspace" ->
               Obj([k \in {"success", "data"} |->
                      IF k = "success" THEN Bool(TRUE)
                      ELSE Obj([f \in {"mermaid", "chunked"} |->
                                  IF f = "mermaid"
                                  THEN Str(StubMermaid)
                                  ELSE chunked])])
          [] params.command = "traverse.analyzeStorage.workspace" ->
               Obj([k \in {"success", "diagram", "chunked"} |->
                      CASE k = "success" -> Bool(TRUE)
                        [] k = "diagram" ->
                             Str(StubReport)
                        [] OTHER -> chunked])
          [] OTHER -> Obj([k \in {"success"} |-> Bool(TRUE)])

\* ---- results a server may answer with
\* The object with the fields of record r that are not undefined.
Fields(r) == Obj([k \in {k \in DOMAIN r : r[k] # Undefined} |-> r[k]])

Opt(texts) == {Undefined} \cup {Str(x) : x \in texts}

\* Results the followed handlers are answered with, besides the stub's.
ServerResults ==
    {Null,
     Fields([success |-> Bool(FALSE)]),
     Fields([success |-> Bool(TRUE), data |-> Fields([dot |-> Str(<<>>)])]),
     Fields([success |-> Bool(TRUE),
             data |-> Fields([dot |-> Str(<<"digraph", HighSurrogate>>)])]),
     Fields([success |-> Bool(TRUE),
             data |-> Fields([dot |-> Str(StubDot),
                              mermaid |-> Str(<<"flowchart">>)])]),
     Fields([success |-> Bool(TRUE), diagram |-> Str(<<"flowchart">>)])}

\* What hdr keeps of a handleDiagramResult call.
CallRecord(h) ==
    [result |-> h.result, title |-> h.title, wrote |-> h.wrote,
     saved |-> h.saved, msg |-> h.msg]

\* ---- Init: activation has found an installed binary and started it.
SessionRunning ==
    /\ client = 1
    /\ cstate = [c \in Clients |-> IF c = 1 THEN "running" ELSE "none"]
    /\ cpath = [c \in Clients |-> IF c = 1 THEN InstalledPath ELSE NoPath]
    /\ cenv = [c \in Clients |-> "off"]
    /\ trace = "off"
    /\ nclients = 1
    /\ task = [t \in Tasks |->
                 IF t = 1
                 THEN [NewTask("activate", "done") EXCEPT !.found = TRUE]
                 ELSE NewTask("none", "idle")]
    /\ installed = TRUE
    /\ cfgPath = FALSE
    /\ supported = TRUE
    /\ dlBusy = 0
    /\ active = TRUE

GenInit ==
    /\ SessionRunning
    /\ registered = RegisteredCommands
    /\ enableChunking = FALSE
    /\ workspace \in {NoWorkspace, ProjectDir}
    /\ today \in {Days[1], Days[2]}
    /\ dirs = {}
    /\ files = {}
    /\ hdr = NoCall
    /\ gen = NoHandler
    /\ calls = <<>>
    /\ exec = <<>>
    /\ PathIdle
    /\ StubIdle

\* ---- actions
\* executeCommand(cmd, uri) for a generate command: ensureLSPClient returns
\* true, the project root is looked up.
GenLaunch(cmd, uri) ==
    /\ gen.pc \in {"idle", "done"}
    /\ gen.n + Len(exec) < MaxRuns
    /\ cmd \in registered
    /\ ClientPresent
    /\ gen' = [cmd |-> cmd, uri |-> uri,
               pc |-> IF FindProjectRoot(ClickedPath(uri)) = "" THEN "done"
                      ELSE "send",
               step |-> 1, root |-> FindProjectRoot(ClickedPath(uri)),
               out |-> "none", ok |-> TRUE, n |-> gen.n + 1]
    /\ calls' = <<>>
    /\ hdr' = NoCall
    /\ UNCHANGED <<registered, enableChunking, workspace, today, dirs, files,
                   exec>>
    /\ UNCHANGED <<sessVars, pathVars, stubVars>>

\* client!.sendRequest('workspace/executeCommand', payload)
GenSend ==
    /\ gen.pc = "send"
    /\ calls' = Append(calls,
                  RequestPayload(Analyses(gen.cmd)[gen.step].command, gen.root))
    /\ gen' = [gen EXCEPT !.pc = "wait", !.out = "pending"]
    /\ UNCHANGED <<registered, enableChunking, workspace, today, dirs, files,
                   hdr, exec>>
    /\ UNCHANGED <<sessVars, pathVars, stubVars>>

\* The request resolves with result; handleDiagramResult runs on it.
GenResponse(result) ==
    /\ gen.pc = "wait"
    /\ LET h == HandleDiagramResult(result, Analyses(gen.cmd)[gen.step].title)
       IN  /\ hdr' = CallRecord(h)
           /\ dirs' = h.dirs
           /\ files' = h.files
    /\ gen' = NextRequest([gen EXCEPT !.out = "answered",
                                      !.ok = @ /\ ~Rejected(result)])
    /\ UNCHANGED <<registered, enableChunking, workspace, today, calls, exec>>
    /\ UNCHANGED <<sessVars, pathVars, stubVars>>

\* The request rejects (error response, connection lost): the error is
\* logged, and shown by the single-analysis commands.
GenRejected ==
    /\ gen.pc = "wait"
    /\ gen' = NextRequest([gen EXCEPT !.out = "err", !.ok = FALSE])
    /\ UNCHANGED <<registered, enableChunking, workspace, today, dirs, files,
                   hdr, calls, exec>>
    /\ UNCHANGED <<sessVars, pathVars, stubVars>>

\* generate-all: the 'All analyses generated successfully' message closes.
GenNotified ==
    /\ gen.pc = "notify"
    /\ gen' = [gen EXCEPT !.pc = "done"]
    /\ UNCHANGED <<registered, enableChunking, workspace, today, dirs, files,
                   hdr, calls, exec>>
    /\ UNCHANGED <<sessVars, pathVars, stubVars>>

\* executeCommand(cmd) for a command id that was not registered: the host
\* rejects the call, no handler runs.
ExecuteUnregistered(cmd) ==
    /\ gen.n + Len(exec) < MaxRuns
    /\ cmd \notin registered
    /\ exec' = Append(exec, cmd)
    /\ UNCHANGED <<registered, enableChunking, workspace, today, dirs, files,
                   hdr, gen, calls>>
    /\ UNCHANGED <<sessVars, pathVars, stubVars>>

\* The user edits traverse-lsp.enableChunking in the settings.
ChunkingSettingChanged ==
    /\ enableChunking' = ~enableChunking
    /\ UNCHANGED <<registered, workspace, today, dirs, files, hdr, gen, calls,
                   exec>>
    /\ UNCHANGED <<sessVars, pathVars, stubVars>>

GenNext ==
    \/ \E cmd \in GenCommands, uri \in {NoUri, ClickedDir} : GenLaunch(cmd, uri)
    \/ GenSend
    \/ \E result \in ServerResults : GenResponse(result)
    \/ GenResponse(MockHandleRequest(calls[Len(calls)]))
    \/ GenRejected
    \/ GenNotified
    \/ \E cmd \in ExpectedCommands : ExecuteUnregistered(cmd)
    \/ ChunkingSettingChanged

GenSpec == GenInit /\ [][GenNext]_vars

\* =============================================== handleDiagramResult alone
\* One call of handleDiagramResult on a result and a title drawn from
\* bounded sets, on a disk that is empty or holds earlier output.
DotTexts == {<<>>, <<"digraph">>}
MermaidTexts == {<<>>, <<"flowchart">>}
DiagramTexts ==
    {<<>>, <<"text">>, <<"graph">>, <<"Digraph">>,
     <<"digraph">>, <<"strict", " ", "graph">>,
     <<"sequenceDiagram">>, <<"graph", " ", "TD">>, <<"graph", " ", "LR">>,
     <<"flowchart">>,
     <<"flowchart", "\n", "digraph">>, <<"strict", " ", "graph", " ", "TD">>}

\* data: absent, or an object with or without dot and mermaid.
DataValues ==
    {Undefined} \cup {Fields([dot |-> d, mermaid |-> m]) :
                        d \in Opt(DotTexts), m \in Opt(MermaidTexts)}

\* result: missing, or an object with or without success, data, diagram.
Results ==
    {Null, Undefined}
    \cup {Fields([success |-> sc, data |-> d, diagram |-> g]) :
            sc \in {Undefined, Bool(TRUE), Bool(FALSE)},
            d \in DataValues, g \in Opt(DiagramTexts)}

Titles == {CallGraphTitle, SequenceTitle, StorageTitle, <<"Report">>}

\* The output directory tree before the call.
Disks ==
    {[dirs |-> {}, files |-> {}],
     [dirs |-> {<<ProjectDir, "traverse-output">>,
                <<ProjectDir, "traverse-output", "call-graphs">>},
      files |-> {}],
     [dirs |-> {<<ProjectDir, "traverse-output">>,
                <<ProjectDir, "traverse-output", "call-graphs">>},
      files |-> {[dir |-> <<ProjectDir, "traverse-output", "call-graphs">>,
                  name |-> [kind |-> <<"call", "-", "graph">>,
                            date |-> Days[1], ext |-> ".dot"],
                  content |-> <<"strict", " ", "graph">>]}]}

PersistInit ==
    /\ SessionRunning
    /\ registered = RegisteredCommands
    /\ enableChunking = FALSE
    /\ workspace \in {NoWorkspace, ProjectDir}
    /\ today \in {Days[1], Days[2]}
    /\ \E disk \in Disks : dirs = disk.dirs /\ files = disk.files
    /\ \E result \in Results, title \in Titles :
         hdr = [NoCall EXCEPT !.result = result, !.title = title]
    /\ gen = NoHandler
    /\ calls = <<>>
    /\ exec = <<>>
    /\ PathIdle
    /\ StubIdle

\* handleDiagramResult(hdr.result, hdr.title) runs.
Persist ==
    /\ hdr.msg = "none"
    /\ LET h == HandleDiagramResult(hdr.result, hdr.title)
       IN  /\ hdr' = CallRecord(h)
           /\ dirs' = h.dirs
           /\ files' = h.files
    /\ UNCHANGED <<registered, enableChunking, workspace, today, gen, calls,
                   exec>>
    /\ UNCHANGED <<sessVars, pathVars, stubVars>>

PersistNext == Persist

PersistSpec == PersistInit /\ [][PersistNext]_vars

\* ============================================================ getServerPath
\* getServerPath followed to the chmod it makes: the binaries on disk have
\* permission bits, the host is Windows or a Unix, and a chmod may fail
\* (a file owned by another user, a read-only file system).
Platforms == {"win32", "linux", "darwin"}

\* Mutant of ChmodApplies: the source of the location is not looked at.
ChmodAppliesAnySource(src) == platform # "win32"

\* `os.platform() !== 'win32' && location.source !== 'settings'`
ChmodApplies(src) == platform # "win32" /\ src # "settings"

PathInit ==
    /\ client = 0
    /\ cstate = [c \in Clients |-> "none"]
    /\ cpath = [c \in Clients |-> NoPath]
    /\ cenv = [c \in Clients |-> "off"]
    /\ trace = "off"
    /\ nclients = 0
    /\ supported \in BOOLEAN
    /\ cfgPath \in BOOLEAN
    /\ installed \in BOOLEAN
    /\ task = [t \in Tasks |->
                 IF t = 1
                 THEN NewTask("activate", AfterRegister(supported))
                 ELSE NewTask("none", "idle")]
    /\ dlBusy = 0
    /\ active = TRUE
    /\ registered = RegisteredCommands
    /\ enableChunking = FALSE
    /\ workspace = ProjectDir
    /\ today = Days[1]
    /\ dirs = {}
    /\ files = {}
    /\ hdr = NoCall
    /\ gen = NoHandler
    /\ calls = <<>>
    /\ exec = <<>>
    /\ platform \in Platforms
    /\ \E ms \in (IF cfgPath THEN Modes ELSE {0}),
          mi \in (IF installed THEN Modes ELSE {0}) :
         mode = [settings |-> ms, installed |-> mi]
    /\ gsp = [t \in Tasks |-> NoLookup]
    /\ StubIdle

\* getServerPath of invocation t: finder.find() has resolved; the binary
\* found is made executable where that applies, the error of a failed chmod
\* is logged, and the path is returned.
GetServerPathFound(t) ==
    /\ task[t].pc \in {"is_locate", "en_locate"}
    /\ gsp[t].pc = "none"
    /\ IF Locate # NoPath /\ ChmodApplies(Locate.src)
       THEN \E ok \in BOOLEAN :
              /\ mode' = IF ok THEN [mode EXCEPT ![Locate.src] = ExecutableMode]
                         ELSE mode
              /\ gsp' = [gsp EXCEPT ![t] =
                           [pc |-> "returned", src |-> Locate.src,
                            chmod |-> IF ok THEN "ok" ELSE "failed",
                            was |-> mode[Locate.src]]]
       ELSE /\ mode' = mode
            /\ gsp' = [gsp EXCEPT ![t] =
                         [pc |-> "returned", src |-> Locate.src,
                          chmod |-> "none",
                          was |-> IF Locate = NoPath THEN 0
                                  ELSE mode[Locate.src]]]
    /\ UNCHANGED <<platform, sessVars, genVars, stubVars>>

\* The path returned reaches the caller, which starts it or prompts.
InitPathReturned(t) == gsp[t].pc = "returned" /\ InitLocated(t)

EnsurePathReturned(t) == gsp[t].pc = "returned" /\ EnsureLocated(t)

PathNext ==
    \E t \in Tasks :
        \/ GetServerPathFound(t)
        \/ InitPathReturned(t) \/ EnsurePathReturned(t)
        \/ InitStarted(t) \/ EnsureStarted1(t)
        \/ LaunchGenerate(t)

PathSpec == PathInit /\ [][PathNext]_vars

\* ========================================================= the stub server
\* MockLSPServer in stdio mode: frames arrive on stdin in chunks, startStdio
\* buffers them and answers on stdout.  A text is the sequence of its
\* characters; a run of ASCII characters that is never split (a keyword, a
\* number, a name) stands as one character, which is one byte in UTF-8.
MaxFrames == 2      \* messages written to the stub server in one run

\* The largest Content-Length value followed; frames are shorter.
MaxContentLength == 64

Quote == "\""
CRLF == "\r\n"
LF == "\n"
EAcute == "\\u00E9"

\* The concatenation of parts[lo], ..., parts[hi].
RECURSIVE Concat(_, _, _)
Concat(parts, lo, hi) ==
    IF lo > hi THEN <<>>
    ELSE IF lo = hi THEN parts[lo]
    ELSE LET mid == (lo + hi) \div 2
         IN  Concat(parts, lo, mid) \o Concat(parts, mid + 1, hi)

\* Whether s holds the sequence pat from index i on.
HasAt(s, i, pat) ==
    /\ i >= 1
    /\ i + Len(pat) - 1 <= Len(s)
    /\ SubSeq(s, i, i + Len(pat) - 1) = pat

Utf8EAcute == <<"C3", "A9">>
Utf8Replacement == <<"EF", "BF", "BD">>
Utf8Pair == <<"F0", "9F", "98", "80">>
Utf8Bytes == {"C3", "A9", "EF", "BF", "BD", "F0", "9F", "98", "80"}

\* The bytes of the character at index i of s: a surrogate pair is one
\* four-byte sequence, a lone surrogate is written as U+FFFD.
Utf8EncodeAt(s, i) ==
    IF s[i] = HighSurrogate /\ HasAt(s, i, <<HighSurrogate, LowSurrogate>>)
    THEN Utf8Pair
    ELSE IF s[i] = LowSurrogate /\ HasAt(s, i - 1, <<HighSurrogate, LowSurrogate>>)
    THEN <<>>
    ELSE IF s[i] \in {HighSurrogate, LowSurrogate, Replacement}
    THEN Utf8Replacement
    ELSE IF s[i] = EAcute THEN Utf8EAcute
    ELSE <<s[i]>>

\* Buffer.from(string), process.stdout.write(string): the UTF-8 bytes.
Utf8Encode(s) ==
    Concat([i \in 1..Len(s) |-> Utf8EncodeAt(s, i)], 1, Len(s))

\* The characters decoded at byte i of b: a complete sequence is its
\* character at its lead byte and nothing at the bytes after it; a byte
\* of a sequence that is cut off or has no lead byte is U+FFFD.
Utf8DecodeAt(b, i) ==
    IF HasAt(b, i, Utf8EAcute) THEN <<EAcute>>
    ELSE IF HasAt(b, i, Utf8Replacement) THEN <<Replacement>>
    ELSE IF HasAt(b, i, Utf8Pair) THEN <<HighSurrogate, LowSurrogate>>
    ELSE IF \/ HasAt(b, i - 1, Utf8EAcute)
            \/ HasAt(b, i - 1, Utf8Replacement)
            \/ HasAt(b, i - 2, Utf8Replacement)
            \/ \E d \in 1..3 : HasAt(b, i - d, Utf8Pair)
    THEN <<>>
    ELSE IF b[i] \in Utf8Bytes THEN <<Replacement>>
    ELSE <<b[i]>>

\* buffer.toString()
Utf8Decode(b) ==
    Concat([i \in 1..Len(b) |-> Utf8DecodeAt(b, i)], 1, Len(b))

\* ---- the messages written to the stub
ExecuteCommand == "workspace/executeCommand"
Methods == {"initialized", ExecuteCommand}
Commands ==
    {"traverse.generateCallGraph.workspace",
     "traverse.generateSequenceDiagram.workspace",
     "traverse.analyzeStorage.workspace"}

\* The characters of the strings in a request.
Chars == {"/", "proj", EAcute, Replacement}

NoParams == [command |-> "", arguments |-> <<>>]

ExecuteParams(command, folder, chunking) ==
    [command |-> command,
     arguments |-> <<IF chunking = Undefined
                     THEN [workspace_folder |-> folder]
                     ELSE [workspace_folder |-> folder, chunking |-> chunking]>>]

CallGraphParams ==
    ExecuteParams("traverse.generateCallGraph.workspace", <<"/", "proj">>,
                  Undefined)
SequenceParams ==
    ExecuteParams("traverse.generateSequenceDiagram.workspace",
                  <<"/", EAcute>>, Bool(TRUE))
StorageParams ==
    ExecuteParams("traverse.analyzeStorage.workspace", <<"/", "proj">>,
                  Str(<<EAcute>>))

\* LSPRequest (id is optional): a notification, and executeCommand requests
\* with ids 0 and 1, for a folder with ASCII and with non-ASCII characters,
\* without and with a chunking argument.
Requests ==
    {[id |-> Undefined, method |-> "initialized", params |-> NoParams],
     [id |-> Num(0), method |-> ExecuteCommand, params |-> CallGraphParams],
     [id |-> Num(1), method |-> ExecuteCommand, params |-> SequenceParams],
     [id |-> Num(1), method |-> ExecuteCommand, params |-> StorageParams]}

\* ---- JSON
\* JSON.stringify of a request.
RequestJson(m) ==
    <<"{">>
    \o (IF m.id = Undefined THEN <<>> ELSE <<"id:", ToString(m.id.n)>>)
    \o <<"method:", m.method>>
    \o (IF m.params = NoParams THEN <<>>
        ELSE LET a == m.params.arguments[1]
             IN  <<"command:", m.params.command, "workspace_folder:", Quote>>
                 \o a.workspace_folder \o <<Quote>>
                 \o (IF "chunking" \notin DOMAIN a THEN <<>>
                     ELSE IF a.chunking.t = "boolean"
                     THEN <<"chunking:", IF a.chunking.b THEN "true" ELSE "false">>
                     ELSE <<"chunking:", Quote>> \o a.chunking.s \o <<Quote>>))
    \o <<"}">>

\* The members of an object are written in the order they were set.
KeyOrder == <<"success", "data", "dot", "mermaid", "diagram", "chunked">>

\* JSON.stringify of a value.
RECURSIVE JsonStringify(_)
RECURSIVE JsonMembers(_, _)
JsonStringify(v) ==
    CASE v.t = "boolean" -> <<IF v.b THEN "true" ELSE "false">>
      [] v.t = "string" -> <<Quote>> \o v.s \o <<Quote>>
      [] v.t = "number" -> <<ToString(v.n)>>
      [] v.t = "object" -> <<"{">> \o JsonMembers(v, KeyOrder) \o <<"}">>
      [] OTHER -> <<"null">>

JsonMembers(o, keys) ==
    IF keys = <<>> THEN <<>>
    ELSE (IF Get(o, Head(keys)) # Undefined
          THEN <<Head(keys), ":">> \o JsonStringify(Get(o, Head(keys)))
          ELSE <<>>)
         \o JsonMembers(o, Tail(keys))

\* parseInt of a line's rest: 0 stands for NaN, which is not > 0 either.
ParseInt(s) ==
    IF Len(s) = 1 /\ \E n \in 0..MaxContentLength : ToString(n) = s[1]
    THEN CHOOSE n \in 0..MaxContentLength : ToString(n) = s[1]
    ELSE 0

\* The index of the first quote at or after i, 0 if there is none.
CloseQuote(s, i) ==
    LET ks == {k \in i..Len(s) : s[k] = Quote}
    IN  IF ks = {} THEN 0 ELSE CHOOSE k \in ks : \A j \in ks : k <= j

\* JSON.parse ignores white space around the value.
RECURSIVE TrimLF(_)
TrimLF(s) ==
    IF s # <<>> /\ Head(s) = LF THEN TrimLF(Tail(s))
    ELSE IF s # <<>> /\ s[Len(s)] = LF THEN TrimLF(SubSeq(s, 1, Len(s) - 1))
    ELSE s

SyntaxError == [ok |-> FALSE]

\* The chunking member and the closing brace: s from index i on.
ParseChunking(s, i) ==
    LET n == Len(s)
    IN  IF i = n THEN [ok |-> TRUE, value |-> Undefined]
        ELSE IF i + 2 = n /\ s[i] = "chunking:" /\ s[i + 1] \in {"true", "false"}
        THEN [ok |-> TRUE, value |-> Bool(s[i + 1] = "true")]
        ELSE IF /\ i + 3 <= n /\ s[i] = "chunking:" /\ s[i + 1] = Quote
                /\ CloseQuote(s, i + 2) = n - 1
                /\ \A k \in (i + 2)..(n - 2) : s[k] \in Chars
        THEN [ok |-> TRUE, value |-> Str(SubSeq(s, i + 2, n - 2))]
        ELSE SyntaxError

\* The params member and what follows: s from index i on.
ParseParams(s, i) ==
    LET n == Len(s)
        q == CloseQuote(s, i + 4)
    IN  IF i = n THEN [ok |-> TRUE, value |-> NoParams]
        ELSE IF /\ i + 5 <= n /\ s[i] = "command:" /\ s[i + 1] \in Commands
                /\ s[i + 2] = "workspace_folder:" /\ s[i + 3] = Quote
                /\ q # 0
                /\ \A k \in (i + 4)..(q - 1) : s[k] \in Chars
                /\ ParseChunking(s, q + 1).ok
        THEN [ok |-> TRUE,
              value |-> ExecuteParams(s[i + 1], SubSeq(s, i + 4, q - 1),
                                      ParseChunking(s, q + 1).value)]
        ELSE SyntaxError

\* JSON.parse of the text of a request: the object, or a SyntaxError for
\* a text that is not one complete JSON value.
JsonParse(text) ==
    LET s == TrimLF(text)
        n == Len(s)
        hasId == n >= 4 /\ s[2] = "id:"
        i == IF hasId THEN 4 ELSE 2
    IN  IF /\ n >= i + 2 /\ s[1] = "{" /\ s[n] = "}"
           /\ (hasId => ToString(ParseInt(<<s[3]>>)) = s[3])
           /\ s[i] = "method:" /\ s[i + 1] \in Methods
           /\ ParseParams(s, i + 2).ok
           /\ (s[i + 1] = ExecuteCommand <=> ParseParams(s, i + 2).value # NoParams)
        THEN [ok |-> TRUE,
              value |-> [id |-> IF hasId THEN Num(ParseInt(<<s[3]>>)) ELSE Undefined,
                         method |-> s[i + 1],
                         params |-> ParseParams(s, i + 2).value]]
        ELSE SyntaxError

\* ---- MockLSPServer
\* content.split('\r\n')
RECURSIVE SplitCRLF(_)
SplitCRLF(s) ==
    LET ks == {k \in 1..Len(s) : s[k] = CRLF}
        k == CHOOSE k \in ks : \A j \in ks : k <= j
    IN  IF ks = {} THEN <<s>>
        ELSE <<SubSeq(s, 1, k - 1)>> \o SplitCRLF(SubSeq(s, k + 1, Len(s)))

\* lines.join('\n')
RECURSIVE JoinLF(_)
JoinLF(lines) ==
    IF lines = <<>> THEN <<>>
    ELSE IF Len(lines) = 1 THEN lines[1]
    ELSE lines[1] \o <<LF>> \o JoinLF(Tail(lines))

\* line.substring(15).trim()
RECURSIVE TrimSpaces(_)
TrimSpaces(s) ==
    IF s # <<>> /\ Head(s) = " " THEN TrimSpaces(Tail(s))
    ELSE IF s # <<>> /\ s[Len(s)] = " "
    THEN TrimSpaces(SubSeq(s, 1, Len(s) - 1))
    ELSE s

\* The loop over the lines, from line i with the contentLength read so far:
\* the index of the line after the first empty line that follows a positive
\* Content-Length, 0 if there is none (jsonStart = -1).
RECURSIVE JsonStart(_, _, _)
JsonStart(lines, i, contentLength) ==
    IF i > Len(lines) THEN 0
    ELSE IF lines[i] # <<>> /\ lines[i][1] = "Content-Length:"
    THEN JsonStart(lines, i + 1, ParseInt(TrimSpaces(Tail(lines[i]))))
    ELSE IF lines[i] = <<>> /\ contentLength > 0 THEN i + 1
    ELSE JsonStart(lines, i + 1, contentLength)

\* parseMessage(buffer): the request, or not ok for null.
ParseMessage(bytes) ==
    LET lines == SplitCRLF(Utf8Decode(bytes))
        jsonStart == JsonStart(lines, 1, 0)
    IN  IF jsonStart # 0
        THEN JsonParse(JoinLF(SubSeq(lines, jsonStart, Len(lines))))
        ELSE SyntaxError

\* createResponse(id, result): the header with content.length, the number
\* of UTF-16 code units of the JSON text, and the text.
CreateResponse(id, result) ==
    LET content == <<"{", "jsonrpc:", "2.0", "id:", ToString(id.n), "result:">>
                   \o JsonStringify(result) \o <<"}">>
    IN  <<"Content-Length:", " ", ToString(Len(content)), CRLF, CRLF>>
        \o content

\* Mutant of WithChunking: any truthy chunking value counts as enabled.
WithChunkingIfTruthy(args) == Truthy(args.chunking)

\* `args.chunking === true`
WithChunking(args) == args.chunking = Bool(TRUE)

\* handleRequest(request): chunkingRequests after the call.  The command
\* of an executeCommand request whose first argument has a chunking key
\* goes to one of the two lists.
RecordChunking(request) ==
    IF /\ request.method = ExecuteCommand
       /\ request.params.arguments # <<>>
       /\ "chunking" \in DOMAIN request.params.arguments[1]
    THEN IF WithChunking(request.params.arguments[1])
         THEN [chunkingRequests EXCEPT
                 !.withChunking = Append(@, request.params.command)]
         ELSE [chunkingRequests EXCEPT
                 !.withoutChunking = Append(@, request.params.command)]
    ELSE chunkingRequests

\* handleRequest(request): the result.
HandleRequest(request) ==
    IF request.method = ExecuteCommand THEN MockHandleRequest(request.params)
    ELSE Obj([k \in {"success"} |-> Bool(TRUE)])

\* Mutant of Responds: a request whose id is falsy is not answered.
RespondsIfTruthy(message) == Truthy(message.id)

\* `message.id !== undefined`
Responds(message) == message.id # Undefined

\* ---- the client end of the pipe
\* One frame: the header with the number of bytes of the body, an empty
\* line, the body.
Frame(m) ==
    LET body == Utf8Encode(RequestJson(m))
    IN  <<"Content-Length:", " ", ToString(Len(body)), CRLF, CRLF>> \o body

StubInit ==
    /\ SessionRunning
    /\ registered = RegisteredCommands
    /\ enableChunking = FALSE
    /\ workspace = ProjectDir
    /\ today = Days[1]
    /\ dirs = {}
    /\ files = {}
    /\ hdr = NoCall
    /\ gen = NoHandler
    /\ calls = <<>>
    /\ exec = <<>>
    /\ PathIdle
    /\ StubIdle

\* The client writes the frame of message m to the stub's stdin.
ClientWrite(m) ==
    /\ Len(framed) < MaxFrames
    /\ wire' = wire \o Frame(m)
    /\ framed' = Append(framed, m)
    /\ UNCHANGED <<buffer, receivedRequests, chunkingRequests, stdout>>
    /\ UNCHANGED <<sessVars, genVars, pathVars>>

\* process.stdin 'data': the next k bytes arrive as one chunk; the chunk is
\* decoded and appended to buffer, the buffer is parsed and, when there is
\* a message, cleared, the message handled and, if it has an id, answered.
StdinData(k) ==
    /\ k \in 1..Len(wire)
    /\ wire' = SubSeq(wire, k + 1, Len(wire))
    /\ LET text == buffer \o Utf8Decode(SubSeq(wire, 1, k))
           message == ParseMessage(Utf8Encode(text))
       IN  IF message.ok
           THEN /\ buffer' = <<>>
                /\ receivedRequests' = Append(receivedRequests, message.value)
                /\ chunkingRequests' = RecordChunking(message.value)
                /\ stdout' =
                     IF Responds(message.value)
                     THEN Append(stdout,
                            Utf8Encode(CreateResponse(message.value.id,
                                          HandleRequest(message.value))))
                     ELSE stdout
           ELSE /\ buffer' = text
                /\ UNCHANGED <<receivedRequests, chunkingRequests, stdout>>
    /\ UNCHANGED framed
    /\ UNCHANGED <<sessVars, genVars, pathVars>>

StubNext ==
    \/ \E m \in Requests : ClientWrite(m)
    \/ \E k \in 1..(MaxFrames * MaxContentLength) : StdinData(k)

StubSpec == StubInit /\ [][StubNext]_vars

\* ============================================= generate commands side by side
\* Command handlers are async functions: a handler that awaits its request
\* leaves the host free to run the next command.  Activation has started a
\* session and returned; every invocation is a generate command.
ConcInit ==
    /\ client = 1
    /\ cstate = [c \in Clients |-> IF c = 1 THEN "running" ELSE "none"]
    /\ cpath = [c \in Clients |-> IF c = 1 THEN InstalledPath ELSE NoPath]
    /\ cenv = [c \in Clients |-> "off"]
    /\ trace = "off"
    /\ nclients = 1
    /\ task = [t \in Tasks |-> NewTask("none", "idle")]
    /\ installed = TRUE
    /\ cfgPath = FALSE
    /\ supported = TRUE
    /\ dlBusy = 0
    /\ active = TRUE
    /\ registered = RegisteredCommands
    /\ enableChunking = FALSE
    /\ workspace = ProjectDir
    /\ today = Days[1]
    /\ dirs = {}
    /\ files = {}
    /\ hdr = NoCall
    /\ gen = NoHandler
    /\ calls = <<>>
    /\ exec = <<>>
    /\ PathIdle
    /\ StubIdle

\* generate-all is invoked: ensureLSPClient as in the other generate
\* commands, then its three requests.
LaunchGenerateAll(t) ==
    /\ Idle(t)
    /\ task' = Set(t, NewTask("all", IF ClientPresent
                   THEN AfterEnsure("all", TRUE) ELSE "en_locate"))
    /\ UNCHANGED <<trace, client, cstate, cpath, cenv, nclients, installed,
                   cfgPath, supported, dlBusy, active>>
    /\ UNCHANGED <<genVars, pathVars, stubVars>>

ConcNext ==
    \/ \E t \in Tasks :
         \/ LaunchGenerate(t) \/ LaunchGenerateAll(t) \/ SendRequest(t)
         \/ ResponseReceived(t) \/ RequestRejected(t)
    \/ \E c \in Clients : Crash(c)

ConcSpec == ConcInit /\ [][ConcNext]_vars

\* ================================================================= claims

\* C1: at most one language-server session that has been started and not
\* stopped exists at any time, under every interleaving of the handlers.
AtMostOneLiveSession == Cardinality({c \in Clients : Live(c)}) <= 1

\* C2: a generate command never calls sendRequest on a client that is
\* still starting or is being stopped.
NoSendDuringTransition ==
    \A t \in Tasks : task[t].req \notin {"starting", "stopping"}

\* C3: a generate command never calls sendRequest on a session whose
\* start failed (client.start() rejected).
NoSendOnFailedStart == \A t \in Tasks : task[t].req # "failed"

\* C4: a generate command that found no binary and whose ensureLSPClient
\* gave up (download declined, download returned no path, or the downloaded
\* binary failed to start) has called sendRequest on no client, has written
\* no file and has returned normally.
AbortedGenerateSendsNothing ==
    \A t \in Tasks :
        (task[t].kind \in GenKinds /\ ~task[t].found /\ task[t].abort # "none")
        => /\ task[t].req = "none"
           /\ ~task[t].sent
           /\ ~task[t].wrote
           /\ task[t].pc = "done"

\* C4 witness: a generate command gave up after the downloaded binary
\* failed to start.
AbortedGenerateReached ==
    \E t \in Tasks : /\ task[t].kind \in GenKinds
                     /\ ~task[t].found
                     /\ task[t].abort = "startFailed"
                     /\ task[t].dl = "ok"
                     /\ task[t].pc = "done"

\* C5: no command handler ends with an unhandled exception or rejection.
HandlersNeverThrow ==
    \A t \in Tasks : task[t].kind \in CommandKinds => task[t].pc # "threw"

\* C6: after the server process has exited unexpectedly, a generate command
\* never calls sendRequest on the dead session.
NoSendOnCrashedSession == \A t \in Tasks : task[t].req # "crashed"

\* C7: whenever a stop() awaited by restart-server, download-server or
\* deactivate settles, resolved or rejected, the client reference no longer
\* holds the client that was stopped.
StopAlwaysClearsClient ==
    [][\A t \in Tasks :
          (task[t].stop \in {"pending", "resolving", "rejecting"}
             /\ task'[t].stop \notin {"pending", "resolving", "rejecting"})
          => client' # task[t].old]_vars

\* C8 (as stated): the session restart-server starts after stopping a
\* running session has the parameters (executable path, environment) of the
\* session it stopped.
RestartKeepsParameters ==
    \A t \in Tasks :
        (task[t].kind = "restart" /\ task[t].stop = "resolved" /\ task[t].cl # 0)
        => /\ cpath[task[t].cl] = cpath[task[t].old]
           /\ cenv[task[t].cl] = cenv[task[t].old]

\* C8 (amended): restart-server that stopped a session starts a new one only
\* after the stop has resolved and the old session is no longer live, with
\* the path that binary location (or the consented download) gave, and the
\* trace level the setting had, at that time.
RestartStartsAfterStop ==
    \A t \in Tasks :
        (task[t].kind = "restart" /\ task[t].old # 0 /\ task[t].cl # 0)
        => /\ StopResolved(task[t].stop)
           /\ ~Live(task[t].old)
           /\ task[t].loc # NoPath
           /\ cpath[task[t].cl] = task[t].loc
           /\ (cenv[task[t].cl] # "off" => trace # "off")
           /\ task[t].cl # task[t].old

\* C8 witness: restart-server stopped a running session and its new
\* session is running.
RestartedReached ==
    \E t \in Tasks : /\ task[t].kind = "restart"
                     /\ task[t].stop = "resolved"
                     /\ task[t].cl # 0
                     /\ cstate[task[t].cl] = "running"
                     /\ cstate[task[t].old] = "stopped"

\* C9: a request issued on a session whose start() had not completed ends
\* with a failure.
RequestBeforeStartFails ==
    \A t \in Tasks :
        (task[t].req = "starting" /\ task[t].out # "pending")
        => task[t].out = "err"

\* C10 (as stated): of two concurrent download invocations exactly one
\* completes an install: once the download that was in flight has settled,
\* it has installed a binary.
ConcurrentDownloadsInstallOnce ==
    \A t \in Tasks :
        (task[t].behind # 0 /\ task[task[t].behind].dl # "xfer")
        => task[task[t].behind].dl = "ok"

\* C10 (amended): at most one invocation writes the temporary file at a
\* time; an invocation made while a download is in flight installs nothing
\* itself and either fails fast or awaits the one in flight, so the two
\* complete at most one install.
OneDownloadAtATime ==
    /\ Cardinality({t \in Tasks : task[t].dl = "xfer"}) <= 1
    /\ \A t \in Tasks :
          task[t].behind # 0
          => /\ task[t].behind # t
             /\ task[t].dl \in {"busy", "wait", "refused", "joined"}
             /\ ~task[t].dlv
             /\ task[task[t].behind].dl \in {"xfer", "ok", "failed"}
             /\ (task[t].dl = "joined" => task[task[t].behind].dl # "xfer")

\* C10 witness: an invocation made while a download was in flight has
\* settled, and the download in flight completed its install.
SecondDownloadReached ==
    \E t \in Tasks : /\ task[t].dl \in {"refused", "joined"}
                     /\ task[task[t].behind].dl = "ok"

\* C11: downloadLatestBinary is called only by an invocation that stands at
\* a consent prompt (the user then picks 'Download') or by the
\* download-server command as it is invoked; binary location, activation,
\* restart-server and the generate commands start no download otherwise.
DownloadOnlyOnConsent ==
    [][\A t \in Tasks :
          (task[t].dl = "none" /\ task'[t].dl # "none")
          => \/ task[t].pc \in {"is_prompt", "en_prompt"}
             \/ task[t].pc = "idle" /\ task'[t].kind = "download"]_vars

\* C11 witness: a generate command, an activation and a restart-server have
\* a download in flight or settled, each after its prompt.
ConsentedDownloadReached ==
    /\ \E t \in Tasks : task[t].kind = "activate" /\ task[t].dl = "ok"
    /\ \E t \in Tasks : task[t].kind \in {"generate", "restart"}
                        /\ task[t].dl \in {"xfer", "busy", "wait"}
                        /\ task[t].pc = "en_dl"

\* C12: the sendRequest calls of generate-all are the call-graph, the
\* sequence-diagram and the storage-analysis request, in that order; each is
\* made only when the previous one is no longer pending; and whether the
\* earlier ones were answered, answered unsuccessfully or rejected, all
\* three have been made when the handler is through.
AllOrder ==
    <<"traverse.generateCallGraph.workspace",
      "traverse.generateSequenceDiagram.workspace",
      "traverse.analyzeStorage.workspace">>

GenerateAllInOrder ==
    [][gen'.cmd = "traverse.generateAllAnalyses" =>
         /\ Len(calls') <= Len(AllOrder)
         /\ \A i \in DOMAIN calls' : calls'[i].command = AllOrder[i]
         /\ (Len(calls') > Len(calls) => gen.out # "pending")
         /\ (gen'.pc \in {"notify", "done"} /\ gen'.root # ""
               => Len(calls') = Len(AllOrder))]_vars

\* C12 witness: generate-all has made its three requests although one was
\* answered with an unsuccessful result and the last one was rejected.
GenerateAllThroughReached ==
    /\ gen.cmd = "traverse.generateAllAnalyses"
    /\ gen.pc = "done"
    /\ Len(calls) = 3
    /\ hdr.msg = "failed"
    /\ gen.out = "err"

\* C13: each execution of toggle-chunking flips the enableChunking setting.
ToggleFlipsChunking ==
    [][(Len(exec') > Len(exec)
          /\ exec'[Len(exec')] = "traverse.toggleChunking")
       => enableChunking' = ~enableChunking]_vars

\* C14: every workspace/executeCommand request of the generate commands
\* carries in its first argument a chunking field equal to the
\* enableChunking setting at the time the request is sent.
RequestsCarryChunking ==
    [][Len(calls') > Len(calls)
       => /\ "chunking" \in DOMAIN calls'[Len(calls')].arguments[1]
          /\ calls'[Len(calls')].arguments[1].chunking = enableChunking]_vars

\* C15: once activate has run, the seven commands are registered and the
\* activation has not ended in an error.
AllCommandsRegistered ==
    /\ ExpectedCommands \subseteq registered
    /\ task[1].kind = "activate" /\ task[1].pc # "threw"

\* C16: handleDiagramResult on a missing result or a result with success
\* false writes no file and creates no directory (and saves no path).
FailedResultWritesNothing ==
    [][(/\ hdr.msg = "none" /\ hdr'.msg # "none"
        /\ \/ hdr.result \in {Null, Undefined}
           \/ Get(hdr.result, "success") = Bool(FALSE))
       => /\ files' = files
          /\ dirs' = dirs
          /\ hdr'.wrote = <<>>
          /\ hdr'.saved = <<>>]_vars

\* C16 witness: a result with success false and a dot payload was handled
\* with a workspace folder open and no output directory on disk.
FailedResultHandledReached ==
    /\ hdr.msg = "failed"
    /\ Get(hdr.result, "success") = Bool(FALSE)
    /\ Truthy(Get(Get(hdr.result, "data"), "dot"))
    /\ workspace # NoWorkspace
    /\ dirs = {}

\* The files of C17: the two writes of a call, .dot then .mmd, and the
\* saved list holding their absolute paths in that order.
TwoFilesDotThenMermaid ==
    /\ Len(hdr.wrote) = 2
    /\ hdr.wrote[1].name.ext = ".dot"
    /\ hdr.wrote[2].name.ext = ".mmd"
    /\ Len(hdr.saved) = 2
    /\ \A i \in 1..2 :
         /\ hdr.saved[i] = Append(hdr.wrote[i].dir, hdr.wrote[i].name)
         /\ hdr.saved[i][1] = workspace
         /\ hdr.wrote[i] \in files

\* A handled successful result whose data holds a dot and a mermaid payload.
HandledBothPayloads ==
    /\ hdr.msg # "none"
    /\ Get(hdr.result, "success") = Bool(TRUE)
    /\ Truthy(Get(Get(hdr.result, "data"), "dot"))
    /\ Truthy(Get(Get(hdr.result, "data"), "mermaid"))

WritesIffSomePayload ==
    (hdr.msg # "none" /\ Get(hdr.result, "success") = Bool(TRUE))
    => (hdr.wrote # <<>>
          <=> \/ Truthy(Get(Get(hdr.result, "data"), "dot"))
              \/ Truthy(Get(Get(hdr.result, "data"), "mermaid"))
              \/ Truthy(Get(hdr.result, "diagram")))

\* C18 (amended): for a successful result, handleDiagramResult writes at
\* least one file if and only if a workspace folder is open and either
\* data is present and data.dot or data.mermaid is a non-empty payload, or
\* data is absent and diagram is a non-empty payload.
WritesIffPayloadOfItsShape ==
    (hdr.msg # "none" /\ Get(hdr.result, "success") = Bool(TRUE))
    => (hdr.wrote # <<>>
          <=> /\ workspace # NoWorkspace
              /\ IF Get(hdr.result, "data") # Undefined
                 THEN \/ Truthy(Get(Get(hdr.result, "data"), "dot"))
                      \/ Truthy(Get(Get(hdr.result, "data"), "mermaid"))
                 ELSE Truthy(Get(hdr.result, "diagram")))

\* C18 witness: a result with a data object without payloads and a
\* non-empty diagram was handled with a workspace folder open.
ShadowedDiagramReached ==
    /\ hdr.msg = "nothing"
    /\ Get(hdr.result, "data") # Undefined
    /\ Truthy(Get(hdr.result, "diagram"))
    /\ workspace # NoWorkspace

\* The output layout of C19: for each analysis requested, the directory
\* and the kind its files are named after.
Layout ==
    {[command |-> "traverse.generateCallGraph.workspace",
      dir |-> "call-graphs", kind |-> <<"call", "-", "graph">>],
     [command |-> "traverse.generateSequenceDiagram.workspace",
      dir |-> "sequence-diagrams", kind |-> <<"sequence", "-", "diagram">>],
     [command |-> "traverse.analyzeStorage.workspace",
      dir |-> "storage-reports", kind |-> <<"storage", "-", "analysis">>]}

InLayout(f, root, l) ==
    /\ f.dir = <<root, "traverse-output", l.dir>>
    /\ f.name.kind = l.kind
    /\ f.name.date \in {Days[i] : i \in DOMAIN Days}
    /\ f.name.ext \in {".dot", ".mmd", ".md"}

\* C19: every file written for a generate command lies at
\* <project-root>/traverse-output/<dir>/<kind>-<date>.<ext>, with dir and
\* kind those of the analysis requested and ext one of dot, mmd, md; no
\* file and no directory is made outside these three directories.
FilesInLayout ==
    /\ \A f \in files : \E l \in Layout : InLayout(f, gen.root, l)
    /\ \A d \in dirs :
         \/ d = <<gen.root, "traverse-output">>
         \/ \E l \in Layout : d = <<gen.root, "traverse-output", l.dir>>
    /\ gen.out = "answered"
       => \A i \in DOMAIN hdr.wrote :
            \E l \in Layout : /\ l.command = calls[Len(calls)].command
                              /\ InLayout(hdr.wrote[i], gen.root, l)
                              /\ hdr.wrote[i] \in files

\* C19 witness: files with the three extensions are on disk, in the three
\* directories.
AllKindsWrittenReached ==
    /\ \A e \in {".dot", ".mmd", ".md"} : \E f \in files : f.name.ext = e
    /\ \A l \in Layout : \E f \in files : f.dir[3] = l.dir

\* A call-graph command has been answered with {success: true,
\* data: {dot: X}} (no mermaid payload) and the result handled.
CallGraphAnswered ==
    /\ gen.cmd = "traverse.generateCallGraph"
    /\ gen.out = "answered"
    /\ Get(hdr.result, "success") = Bool(TRUE)
    /\ Get(Get(hdr.result, "data"), "dot").t = "string"
    /\ Get(Get(hdr.result, "data"), "mermaid") = Undefined

\* Exactly one file was written for it: R/traverse-output/call-graphs/
\* call-graph-<date>.dot for the command's project root R, with content X.
OneDotFileWithContent ==
    /\ hdr.wrote =
         <<[dir |-> <<gen.root, "traverse-output", "call-graphs">>,
            name |-> [kind |-> <<"call", "-", "graph">>, date |-> today,
                      ext |-> ".dot"],
            content |-> Get(Get(hdr.result, "data"), "dot").s]>>
    /\ hdr.wrote[1] \in files

\* C20 (as stated): a call-graph command for project root R answered with
\* {success: true, data: {dot: X}} results in exactly one written file,
\* R/traverse-output/call-graphs/call-graph-<date>.dot, with content X.
CallGraphEndToEnd == CallGraphAnswered => OneDotFileWithContent

\* A string without unpaired surrogate code units.
WellFormed(x) ==
    \A i \in DOMAIN x :
        /\ x[i] = HighSurrogate => (i < Len(x) /\ x[i + 1] = LowSurrogate)
        /\ x[i] = LowSurrogate => (i > 1 /\ x[i - 1] = HighSurrogate)

\* C20 (amended): the same when a workspace folder is open (R is then its
\* root) and X is a non-empty string of well-formed Unicode.
CallGraphEndToEndInWorkspace ==
    (/\ CallGraphAnswered
     /\ workspace # NoWorkspace
     /\ Get(Get(hdr.result, "data"), "dot").s # <<>>
     /\ WellFormed(Get(Get(hdr.result, "data"), "dot").s))
    => OneDotFileWithContent

\* C20 witness: the stub's call-graph answer was saved for a call-graph
\* command in an open workspace.
StubCallGraphSavedReached ==
    /\ CallGraphAnswered
    /\ workspace # NoWorkspace
    /\ Get(Get(hdr.result, "data"), "dot") = Str(StubDot)
    /\ hdr.msg = "saved"

\* A handled successful result of the legacy single-format shape: a
\* non-empty diagram and no data.
LegacyHandled ==
    /\ hdr.msg # "none"
    /\ Get(hdr.result, "success") = Bool(TRUE)
    /\ Get(hdr.result, "data") = Undefined
    /\ Truthy(Get(hdr.result, "diagram"))

\* The markers of the two families.
HasGraphMarker(text) ==
    \E m \in {<<"digraph">>, <<"strict", " ", "graph">>} : Includes(text, m)

HasMermaidMarker(text) ==
    \E m \in {<<"sequenceDiagram">>, <<"graph", " ", "TD">>,
               <<"graph", " ", "LR">>, <<"flowchart">>} : Includes(text, m)

\* Exactly one file was written, holding the diagram, with extension .dot
\* when the text has a graph-description marker, else .mmd when it has a
\* Mermaid marker, else .md.
OneLegacyFile ==
    /\ Len(hdr.wrote) = 1
    /\ Len(hdr.saved) = 1
    /\ hdr.wrote[1] \in files
    /\ hdr.wrote[1].content = Get(hdr.result, "diagram").s
    /\ LET text == Get(hdr.result, "diagram").s
           ext == hdr.wrote[1].name.ext
       IN  /\ ext \in {".dot", ".mmd", ".md"}
           /\ ext = ".dot" <=> HasGraphMarker(text)
           /\ ext = ".mmd" <=> (~HasGraphMarker(text) /\ HasMermaidMarker(text))

ConfiguredBinaryUntouched ==
    [][/\ mode'.settings = mode.settings
       /\ \A t \in Tasks :
            (gsp[t].pc = "none" /\ gsp'[t].pc = "returned"
               /\ gsp'[t].src = "settings")
            => (gsp'[t].chmod = "none" /\ mode' = mode)]_vars

\* C23 witness: on a Unix host a configured binary that is not executable
\* was returned and handed to startLanguageServer.
ConfiguredStartedReached ==
    \E t \in Tasks : /\ task[t].found
                     /\ task[t].loc = SettingsPath
                     /\ gsp[t].src = "settings"
                     /\ platform # "win32"
                     /\ ~OwnerExec(mode.settings)

\* C24: on a non-Windows host every installed binary whose path
\* getServerPath has handed to startLanguageServer was marked executable
\* by a chmod that succeeded.
InstalledPathMarkedExecutable ==
    \A t \in Tasks :
        (task[t].found /\ gsp[t].src = "installed" /\ platform # "win32")
        => (gsp[t].chmod = "ok" /\ OwnerExec(mode.installed))

\* C25: the mode the extension sets when it marks an installed binary
\* executable grants execute permission to the owner and to nobody else.
ExecutableForOwnerOnly ==
    \A t \in Tasks :
        gsp[t].chmod = "ok"
        => /\ OwnerExec(mode[gsp[t].src])
           /\ ~GroupExec(mode[gsp[t].src])
           /\ ~OtherExec(mode[gsp[t].src])


\* ---- the stub server's frames
\* A frame is its five header characters and its body.
HeaderLen == 5

\* The number a frame's Content-Length header declares.
DeclaredLength(frame) == ParseInt(<<frame[3]>>)

\* C26: for every response the stub server writes, the number in its
\* Content-Length header is the number of UTF-8 bytes of the JSON body that
\* follows the blank line.
ContentLengthIsByteLength ==
    \A i \in 1..Len(stdout) :
        DeclaredLength(stdout[i]) = Len(stdout[i]) - HeaderLen

\* C27: however the frame of one request is split into chunks, the stdio
\* loop handles a request only once the whole frame has been delivered,
\* handles it exactly once, and handles the message that was framed.
SplitFrameRoundTrips ==
    Len(framed) = 1 =>
        /\ Len(receivedRequests) <= 1
        /\ receivedRequests # <<>> =>
              wire = <<>> /\ receivedRequests[1] = framed[1]
        /\ wire = <<>> => Len(receivedRequests) = 1

\* C28: once everything written has been delivered, every frame has been
\* handled as its own request, in the order written: none is merged with
\* the next, none is lost, none is left in the buffer.
BufferedFramesHandledInOrder ==
    wire = <<>> =>
        /\ Len(receivedRequests) = Len(framed)
        /\ \A i \in 1..Len(receivedRequests) :
              /\ receivedRequests[i].id = framed[i].id
              /\ receivedRequests[i].method = framed[i].method

\* The handled requests that carry an id, in the order handled.
RequestsWithId == SelectSeq(receivedRequests, LAMBDA m : m.id # Undefined)

\* The id in a response frame.
ResponseId(frame) == ParseInt(<<frame[HeaderLen + 5]>>)

\* C29: the responses on stdout are, in order, one for each handled request
\* that carries an id, with that id; a message without an id gets none.
ResponsesMatchRequestIds ==
    /\ Len(stdout) = Len(RequestsWithId)
    /\ \A i \in 1..Len(stdout) :
          /\ stdout[i][HeaderLen + 4] = "id:"
          /\ ResponseId(stdout[i]) = RequestsWithId[i].id.n

\* C29 witness: a request with id 0 and a notification were both handled
\* and stdout holds the one response.
IdZeroAnsweredNotificationSilent ==
    /\ Len(receivedRequests) = 2
    /\ \E i, j \in 1..2 :
          /\ receivedRequests[i].id = Num(0)
          /\ receivedRequests[j].id = Undefined
    /\ Len(stdout) = 1


\* C30: in the activation on a supported platform, once getServerPath has
\* returned, the download prompt was shown exactly once if no binary was
\* found and not at all otherwise; startLanguageServer is called at most
\* once, and only with a binary found or after the user chose Download
\* and the download returned a path; an activation that ends without that
\* call has shown the 'not installed' warning, and one that made it has not.
ActivationPromptsOnceThenStartsOrWarns ==
    \A t \in Tasks :
        (task[t].kind = "activate" /\ supported) =>
            LET r == task[t]
            IN  /\ r.pc # "is_locate" => r.prompts = (IF r.found THEN 0 ELSE 1)
                /\ r.starts <= 1
                /\ r.starts = 1 => r.found \/ (r.prompts = 1 /\ r.got)
                /\ r.warned => r.starts = 0 /\ ~r.found /\ ~r.got
                /\ r.pc = "done" => (r.warned <=> r.starts = 0)

\* C30 witness: the activation found no binary, prompted once, the user
\* declined, and it ended with the warning and without a session.
ActivationDeclinedAndWarned ==
    \E t \in Tasks :
        /\ task[t].kind = "activate"
        /\ task[t].pc = "done"
        /\ task[t].prompts = 1
        /\ task[t].dl = "none"
        /\ task[t].warned
        /\ task[t].starts = 0


\* C31: while a request of one command is pending on the running session,
\* another command that is invoked passes ensureLSPClient, a command that
\* is about to send gets its request onto the same session, and a command
\* whose request is pending there too can be answered and have its result
\* saved; none of this touches the pending request.
PendingRequestBlocksNoCommand ==
    \A a, b \in Tasks :
        (/\ a # b
         /\ task[a].pc = "g_wait"
         /\ task[a].cl = client
         /\ cstate[client] = "running") =>
            /\ Idle(b) =>
                 ENABLED (/\ LaunchGenerate(b)
                          /\ task'[b].pc = "g_send"
                          /\ task'[a] = task[a])
            /\ task[b].pc = "g_send" =>
                 ENABLED (/\ SendRequest(b)
                          /\ task'[b].pc = "g_wait"
                          /\ task'[b].cl = task[a].cl
                          /\ task'[b].sent
                          /\ task'[a] = task[a])
            /\ (task[b].pc = "g_wait" /\ task[b].cl = task[a].cl) =>
                 ENABLED (/\ ResponseReceived(b)
                          /\ task'[b].wrote
                          /\ task'[a] = task[a])

\* C31 witness: a command's request is pending on the running session
\* while a generate-all invoked after it has had its first result saved
\* and has its second request pending on the same session.
SecondCommandServedWhilePending ==
    \E a, b \in Tasks :
        /\ a < b
        /\ task[a].pc = "g_wait"
        /\ task[a].cl = client
        /\ cstate[client] = "running"
        /\ task[b].kind = "all"
        /\ task[b].pc = "g_wait"
        /\ task[b].cl = client
        /\ task[b].step = 2
        /\ task[b].wrote


\* ---- a command run again
\* File f is what an earlier run of the command with this title left on
\* this day: it lies in the title's directory under the name the title and
\* the date give.
EarlierRunToday(f, title) ==
    /\ f.dir = OutputDir(title)
    /\ f.name.kind = ReplaceSpaces(ToLowerCase(title))
    /\ f.name.date = Timestamp

\* The files in directory dir.
FilesIn(fs, dir) == {f \in fs : f.dir = dir}

\* The run that ends in this step wrote, and its last write is the only
\* content of the path of f; no other file came into the directory.
ReplacedBy(f) ==
    /\ \E g \in files' :
         /\ g.dir = f.dir
         /\ g.name = f.name
         /\ g.content = hdr'.wrote[Len(hdr'.wrote)].content
    /\ Cardinality(FilesIn(files', f.dir)) = Cardinality(FilesIn(files, f.dir))
    /\ \A g \in FilesIn(files', f.dir) :
         \E h \in FilesIn(files, f.dir) : g.name = h.name

\* C32 (as stated): a run of a command that saves a result on a day on
\* which an earlier run of it saved one writes the earlier file's path: the
\* file then holds the new payload, no file with another name is created
\* and the directory holds as many files as before.
SameDayRerunReplacesFile ==
    [][\A f \in files :
          (EarlierRunToday(f, hdr.title) /\ hdr'.wrote # <<>>)
              => ReplacedBy(f)]_vars

\* C32 (amended): the same, for a run whose result carries its payload in
\* the format of the earlier file only.
SameDayRerunSameFormatReplacesFile ==
    [][\A f \in files :
          (/\ EarlierRunToday(f, hdr.title)
           /\ hdr'.wrote # <<>>
           /\ \A i \in DOMAIN hdr'.wrote : hdr'.wrote[i].name.ext = f.name.ext)
              => ReplacedBy(f)]_vars

\* C32 witness: the call-graph file of the day held the earlier payload and
\* holds the payload of the run that has just saved; it is the only file.
RerunOverwroteReached ==
    /\ hdr.title = CallGraphTitle
    /\ today = Days[1]
    /\ Len(hdr.wrote) = 1
    /\ hdr.wrote[1].content = <<"digraph">>
    /\ files = {[dir |-> <<ProjectDir, "traverse-output", "call-graphs">>,
                 name |-> [kind |-> <<"call", "-", "graph">>,
                           date |-> Days[1], ext |-> ".dot"],
                 content |-> <<"digraph">>]}


\* C33: when generate-all shows 'All analyses generated successfully', each
\* of its three requests was answered with a successful result.
AllSuccessReportMeansAllSucceeded ==
    (gen.cmd = "traverse.generateAllAnalyses" /\ gen.pc = "notify") => gen.ok


\* C34: restart-server shows 'Traverse LSP server restarted' when the
\* initializeServer it awaits after its stop() returns; at that moment a
\* session is running.
RestartReportsRunningSession ==
    [][\A t \in Tasks :
          (/\ task[t].kind = "restart"
           /\ task[t].pc \in {"is_locate", "is_prompt", "is_dl", "is_start"}
           /\ task'[t].pc = "done")
              => (client' # 0 /\ cstate'[client'] = "running")]_vars


\* C35: ensureLSPClient shows its 'not installed ... download it now?'
\* prompt only when getServerPath returned nothing.
EnsurePromptsOnlyWithoutBinary ==
    \A t \in Tasks : task[t].pc = "en_prompt" => ~task[t].found


\* C36: the files a generate command saves lie under the path its request
\* carried as workspace_folder, and a request is sent only with a workspace
\* folder open, without which handleDiagramResult saves nothing.
SavedUnderRequestedRoot ==
    /\ \A i \in DOMAIN hdr.wrote :
          /\ calls # <<>>
          /\ hdr.wrote[i].dir[1] =
                calls[Len(calls)].arguments[1].workspace_folder
    /\ calls # <<>> => workspace # NoWorkspace


\* C37: once deactivate has returned, its stop() settled if it made one, no
\* session of the extension is starting or running, then or later.
NoSessionAfterDeactivate ==
    \A t \in Tasks :
        (task[t].kind = "deactivate" /\ task[t].pc = "done") =>
            \A c \in Clients : cstate[c] \notin {"starting", "running"}


\* C38: on a platform that is not supported the activation returns without
\* looking for a binary, prompting, downloading or starting a server, and
\* every client there is was started by a command invoked later.
UnsupportedActivationStartsNothing ==
    ~supported =>
        /\ \A t \in Tasks :
              task[t].kind = "activate" =>
                  /\ task[t].pc = "done"
                  /\ ~task[t].found
                  /\ task[t].prompts = 0
                  /\ task[t].dl = "none"
                  /\ task[t].starts = 0
        /\ nclients > 0 =>
              \E t \in Tasks : task[t].kind \in CommandKinds /\ task[t].starts > 0

\* C38 witness: on an unsupported platform a generate command has started
\* the session that is running.
UnsupportedSessionFromCommand ==
    /\ ~supported
    /\ client # 0
    /\ cstate[client] = "running"
    /\ \E t \in Tasks : task[t].kind = "generate" /\ task[t].starts = 1


\* ---- the stub server's records
\* The commands of the requests in reqs that are workspace/executeCommand
\* requests with a chunking key in their first argument, chunking being
\* true (enabled) or anything else (not enabled), in the order of reqs.
RECURSIVE CommandsWithKey(_, _)
CommandsWithKey(reqs, enabled) ==
    IF reqs = <<>> THEN <<>>
    ELSE LET r == reqs[Len(reqs)]
             has == /\ r.method = ExecuteCommand
                    /\ r.params.arguments # <<>>
                    /\ "chunking" \in DOMAIN r.params.arguments[1]
                    /\ (r.params.arguments[1].chunking = Bool(TRUE)) = enabled
         IN  CommandsWithKey(SubSeq(reqs, 1, Len(reqs) - 1), enabled)
             \o (IF has THEN <<r.params.command>> ELSE <<>>)

\* C39: every request the stub server handles is appended to
\* receivedRequests, which keeps the requests it held in their order; after
\* it, withChunking lists the commands of the handled executeCommand
\* requests with chunking true, withoutChunking those with a chunking key
\* of any other value, and requests without the key are in neither list.
ChunkingRequestsRecorded ==
    [][/\ Len(receivedRequests') \in {Len(receivedRequests),
                                      Len(receivedRequests) + 1}
       /\ SubSeq(receivedRequests', 1, Len(receivedRequests)) = receivedRequests
       /\ Len(stdout') > Len(stdout) => Len(receivedRequests') > Len(receivedRequests)
       /\ chunkingRequests'.withChunking = CommandsWithKey(receivedRequests', TRUE)
       /\ chunkingRequests'.withoutChunking = CommandsWithKey(receivedRequests', FALSE)
      ]_vars

\* C39 witness: a request with chunking true and one with a chunking value
\* that is not true have been handled, each recorded in its list.
BothChunkingListsFilled ==
    /\ Len(receivedRequests) = 2
    /\ chunkingRequests.withChunking =
          <<"traverse.generateSequenceDiagram.workspace">>
    /\ chunkingRequests.withoutChunking =
          <<"traverse.analyzeStorage.workspace">>

====
